---- MODULE Spec2Model ----
(***************************************************************************)
(* mockgrid: message persistence and status-change notification.           *)
(*                                                                         *)
(* The model covers the StoreWrapper (store-to-dispatch bridge), the       *)
(* three message store backends (noop, filesystem, sqlite), the webhook    *)
(* registry as the dispatcher reads it, and the webhook Dispatcher with    *)
(* its detached dispatch units (goroutines), retry loop and signing.       *)
(*                                                                         *)
(* Strings that the code inspects character by character (message ids,    *)
(* which filesystem.filename passes through filepath.Base) are sequences   *)
(* of one-character strings; all other strings are TLA+ strings.           *)
(***************************************************************************)
EXTENDS Integers, Sequences, FiniteSets, TLC

VARIABLES
    backend,    \* which BackendStore the process was started with
    files,      \* filesystem backend: file name under the store root -> JSON content
    rows,       \* sqlite backend: messages table, msg_id -> row
    webhooks,   \* webhook registry: hook id -> WebhookConfig
    callers,    \* per caller of StoreWrapper.SaveMSG: position and locals
    units,      \* dispatch units (one goroutine per DispatchMessageEvent call)
    ntoggles,   \* number of toggle requests served
    now,        \* wall clock, in seconds
    ncalls,     \* number of SaveMSG calls started
    okSaves,    \* number of wrapped-store saves that succeeded
    changes,    \* number of status changes of stored records (a new record counts)
    lastSaved,  \* message id -> the message of the most recent successful save
    op,         \* the direct calls made on a store or a pure function, oldest first, each with its result
    closed      \* whether Close has been called on the store

vars ==
    <<backend, files, rows, webhooks, callers, units, ntoggles, now, ncalls, okSaves,
      changes, lastSaved, op, closed>>

(***************************************************************************)
(* Bounds of the model.                                                    *)
(***************************************************************************)
MaxCalls == 2
MaxSeqCalls == 3
MaxFairCalls == 1
MaxStarted == 1
MaxToggles == 1
MaxStoreOps == 4
MaxListOps == 2
MaxClassifyCalls == 2
MaxRegistryOps == 3
MaxSends == 2
MaxIDLen == 4
MaxChainLen == 3

(***************************************************************************)
(* Message records and the inputs the callers draw from.                   *)
(***************************************************************************)
StatusProcessed == "processed"
StatusDelivered == "delivered"
StatusDeferred == "deferred"
StatusBounce == "bounce"
StatusBlocked == "blocked"
StatusDropped == "dropped"

MessageFields ==
    {"MsgID", "FromEmail", "ToEmail", "Subject", "HTMLBody", "TextBody", "Status",
     "SMTPResponse", "Reason", "Timestamp", "LastEventTime", "OpensCount", "ClicksCount"}

\* Fields tagged `omitempty` in the JSON encoding of Message.
OmitEmptyFields ==
    {"HTMLBody", "TextBody", "SMTPResponse", "Reason", "LastEventTime",
     "OpensCount", "ClicksCount"}

\* Go zero value of each Message field.
ZeroValue(f) ==
    IF f = "MsgID" THEN <<>>
    ELSE IF f \in {"Timestamp", "LastEventTime", "OpensCount", "ClicksCount"} THEN 0
    ELSE ""

idM == <<"m">>
idAM == <<"a", "/", "m">>
idEmpty == <<>>

MsgIDs == {idM, idAM, idEmpty}

msgM1 ==
    [MsgID |-> idM, FromEmail |-> "alice", ToEmail |-> "bob", Subject |-> "hello",
     HTMLBody |-> "<p>hi</p>", TextBody |-> "", Status |-> StatusProcessed,
     SMTPResponse |-> "", Reason |-> "", Timestamp |-> 1, LastEventTime |-> 0,
     OpensCount |-> 0, ClicksCount |-> 0]

msgM2 ==
    [msgM1 EXCEPT !.Status = StatusDelivered, !.SMTPResponse = "250 ok",
                  !.LastEventTime = 2]

msgM3 ==
    [MsgID |-> idM, FromEmail |-> "carol", ToEmail |-> "dave", Subject |-> "bye",
     HTMLBody |-> "", TextBody |-> "plain", Status |-> StatusBounce,
     SMTPResponse |-> "550", Reason |-> "550 mailbox unavailable", Timestamp |-> 2,
     LastEventTime |-> 3, OpensCount |-> 1, ClicksCount |-> 0]

msgAM ==
    [msgM1 EXCEPT !.MsgID = idAM, !.Status = StatusBounce, !.Subject = "other",
                  !.Reason = "554 rejected"]

msgEmpty == [msgM1 EXCEPT !.MsgID = idEmpty]

TestMessages == {msgM1, msgM2, msgM3, msgAM, msgEmpty}

(***************************************************************************)
(* Results of the store calls: a Go (value, error) pair.                   *)
(***************************************************************************)
\* An error is the chain of messages that Unwrap walks; nil is the empty chain.
ErrNil == <<>>
ErrNotFound == <<"record not found">>
ErrIO == <<"input/output error">>
ErrIDRequired == <<"message ID is required">>

\* fmt.Errorf(text + ": %w", err)
Wrap(text, err) == <<text>> \o err

\* errors.Is(err, target)
ErrorsIs(err, target) ==
    err # ErrNil /\ \E i \in 1..Len(err) : SubSeq(err, i, Len(err)) = target

GetResult(msgs, err) == [msgs |-> msgs, err |-> err]

(***************************************************************************)
(* encoding/json on a Message: fields tagged omitempty are left out when   *)
(* they hold their zero value; decoding fills absent fields with zero.     *)
(***************************************************************************)
MarshalMessage(msg) ==
    LET kept == {f \in MessageFields : ~(f \in OmitEmptyFields /\ msg[f] = ZeroValue(f))}
    IN  [f \in kept |-> msg[f]]

UnmarshalMessage(data) ==
    [f \in MessageFields |-> IF f \in DOMAIN data THEN data[f] ELSE ZeroValue(f)]

(***************************************************************************)
(* filepath.Base and the file name of a message id (filesystem backend).   *)
(***************************************************************************)
RECURSIVE StripTrailingSlashes(_)
StripTrailingSlashes(p) ==
    IF Len(p) > 0 /\ p[Len(p)] = "/"
    THEN StripTrailingSlashes(SubSeq(p, 1, Len(p) - 1))
    ELSE p

RECURSIVE AfterLastSlash(_)
AfterLastSlash(p) ==
    IF \E i \in 1..Len(p) : p[i] = "/"
    THEN AfterLastSlash(Tail(p))
    ELSE p

\* A Base that returns its argument.
Base_Identity(path) == path

Base(path) ==
    IF path = <<>> THEN <<".">>
    ELSE LET stripped == StripTrailingSlashes(path)
             last == AfterLastSlash(stripped)
         IN  IF last = <<>> THEN <<"/">> ELSE last

\* The name of the file, relative to the store root, after filepath.Join cleaned it.
filename(id) ==
    LET safeID == Base(id)
    IN  IF safeID = <<"/">> THEN <<".json">> ELSE safeID \o <<".json">>

(***************************************************************************)
(* Orderings used by the list queries.                                     *)
(***************************************************************************)
\* Byte rank of the characters that occur in ids; the ".json" suffix is one token
\* that sorts with its first byte.
CharRank(c) ==
    IF c = "." \/ c = ".json" THEN 46
    ELSE IF c = "/" THEN 47
    ELSE IF c = "a" THEN 97
    ELSE IF c = "b" THEN 98
    ELSE 109

RECURSIVE NameLess(_, _)
NameLess(a, b) ==
    IF a = <<>> THEN b # <<>>
    ELSE IF b = <<>> THEN FALSE
    ELSE IF CharRank(Head(a)) # CharRank(Head(b)) THEN CharRank(Head(a)) < CharRank(Head(b))
    ELSE NameLess(Tail(a), Tail(b))

\* All enumerations of a finite set in which no element stands before one that
\* must precede it.  The set is given as pairs <<rank, element>>, the rank of an
\* element being the number of elements that must precede it; when no two
\* elements share a rank there is a single enumeration.
Orders(pairs) ==
    LET n == Cardinality(pairs)
    IN  IF Cardinality({p[1] : p \in pairs}) = n
        THEN {[i \in 1..n |-> (CHOOSE p \in pairs : p[1] = i - 1)[2]] \o <<>>}
        ELSE {[i \in 1..n |-> s[i][2]] :
                s \in {t \in [1..n -> pairs] :
                         /\ \A i, j \in 1..n : i # j => t[i] # t[j]
                         /\ \A i, j \in 1..n : i < j => t[i][1] <= t[j][1]}}

OrderedSeqs(S, Before(_, _)) ==
    Orders({<<Cardinality({z \in S : Before(z, y)}), y>> : y \in S})

Min(a, b) == IF a < b THEN a ELSE b

DefaultLimit == 100

\* A default ten times as large.
EffectiveLimit_LargerDefault(query) ==
    IF query.Limit = 0 THEN 10 * DefaultLimit ELSE query.Limit

\* limit := query.Limit; if limit == 0 { limit = 100 }
EffectiveLimit(query) ==
    IF query.Limit = 0 THEN DefaultLimit ELSE query.Limit

GetQuery(id, status, limit, offset) ==
    [ID |-> id, Status |-> status, Limit |-> limit, Offset |-> offset]

(***************************************************************************)
(* noop backend.                                                           *)
(***************************************************************************)
noopSaveMSG(msg) == ErrNil

noopGetMSG(query) == GetResult(<<>>, ErrNil)

(***************************************************************************)
(* filesystem backend: one JSON file per message.                          *)
(***************************************************************************)
\* os.WriteFile: create or replace the whole file.
WriteFile(fs, name, data) ==
    [n \in DOMAIN fs \cup {name} |-> IF n = name THEN data ELSE fs[n]]

\* Store.Save: the error and the files afterwards.
fsSave(fs, msg, ioFails) ==
    IF msg.MsgID = <<>> THEN [err |-> ErrIDRequired, files |-> fs]
    ELSE IF ioFails THEN [err |-> Wrap("write message file", ErrIO), files |-> fs]
    ELSE [err |-> ErrNil, files |-> WriteFile(fs, filename(msg.MsgID), MarshalMessage(msg))]

fsGetByID(fs, id) ==
    IF filename(id) \notin DOMAIN fs
    THEN GetResult(<<>>, ErrNotFound)
    ELSE GetResult(<<UnmarshalMessage(fs[filename(id)])>>, ErrNil)

\* Store.list: directory entries in name order, filtered, then offset and limit.
fsList(fs, query) ==
    LET limit == EffectiveLimit(query)
        names == CHOOSE s \in OrderedSeqs(DOMAIN fs, NameLess) : TRUE
        all == [i \in 1..Len(names) |-> UnmarshalMessage(fs[names[i]])]
        Matches(m) == query.Status = "" \/ m.Status = query.Status
        matching == SelectSeq(all, Matches)
        skip == IF query.Offset > 0 THEN Min(query.Offset, Len(matching)) ELSE 0
        rest == SubSeq(matching, skip + 1, Len(matching))
        take == IF limit <= 0 THEN 1 ELSE limit
    IN  GetResult(SubSeq(rest, 1, Min(take, Len(rest))), ErrNil)

fsGet(fs, query) ==
    IF query.ID # <<>> THEN fsGetByID(fs, query.ID) ELSE fsList(fs, query)

(***************************************************************************)
(* sqlite backend: table messages, primary key msg_id.                     *)
(***************************************************************************)
\* Columns that ON CONFLICT(msg_id) DO UPDATE SET assigns from the new values.
UpsertColumns ==
    {"Status", "SMTPResponse", "Reason", "LastEventTime", "OpensCount", "ClicksCount"}

sqliteUpsert(tbl, msg) ==
    IF msg.MsgID \in DOMAIN tbl
    THEN [tbl EXCEPT ![msg.MsgID] =
             [f \in MessageFields |-> IF f \in UpsertColumns THEN msg[f] ELSE @[f]]]
    ELSE [k \in DOMAIN tbl \cup {msg.MsgID} |-> IF k = msg.MsgID THEN msg ELSE tbl[k]]

sqliteSaveMSG(tbl, msg, ioFails) ==
    IF msg.MsgID = <<>> THEN [err |-> ErrIDRequired, rows |-> tbl]
    ELSE IF ioFails THEN [err |-> Wrap("insert message", ErrIO), rows |-> tbl]
    ELSE [err |-> ErrNil, rows |-> sqliteUpsert(tbl, msg)]

sqliteGetMSGByID(tbl, id) ==
    IF id \notin DOMAIN tbl
    THEN GetResult(<<>>, ErrNotFound)
    ELSE GetResult(<<tbl[id]>>, ErrNil)

\* Store.listMSG: every row order that ORDER BY timestamp DESC allows (ties are
\* in no particular order), then OFFSET and LIMIT.
sqliteListMSG(tbl, query) ==
    LET limit == EffectiveLimit(query)
        matching == {k \in DOMAIN tbl : query.Status = "" \/ tbl[k].Status = query.Status}
        Newer(a, b) == tbl[a].Timestamp > tbl[b].Timestamp
        skipOf(n) == IF query.Offset > 0 THEN Min(query.Offset, n) ELSE 0
        takeOf(n) == IF limit < 0 THEN n ELSE Min(limit, n)
    IN  {GetResult(
            LET ms == [i \in 1..Len(ks) |-> tbl[ks[i]]]
                rest == SubSeq(ms, skipOf(Len(ms)) + 1, Len(ms))
            IN  SubSeq(rest, 1, takeOf(Len(rest))),
            ErrNil) : ks \in OrderedSeqs(matching, Newer)}

(***************************************************************************)
(* The MessageStore the wrapper holds, by backend.  GetMSG yields the set  *)
(* of results the call can produce in the given state.                     *)
(***************************************************************************)
GetMSG(b, fs, tbl, query) ==
    IF b = "noop" THEN {noopGetMSG(query)}
    ELSE IF b = "filesystem"
         THEN {fsGet(fs, query), GetResult(<<>>, Wrap("read message file", ErrIO))}
    ELSE (IF query.ID # <<>> THEN {sqliteGetMSGByID(tbl, query.ID)}
                               ELSE sqliteListMSG(tbl, query))
         \cup {GetResult(<<>>, Wrap("query message", ErrIO))}

\* The stored record a lookup by id finds, as a sequence of zero or one message.
Stored(b, fs, tbl, id) ==
    IF b = "noop" THEN <<>>
    ELSE IF b = "filesystem" THEN fsGetByID(fs, id).msgs
    ELSE sqliteGetMSGByID(tbl, id).msgs

\* MessageStore.SaveMSG: error, files and rows afterwards.
SaveMSG(b, fs, tbl, msg, ioFails) ==
    IF b = "noop" THEN [err |-> noopSaveMSG(msg), files |-> fs, rows |-> tbl]
    ELSE IF b = "filesystem"
         THEN [err |-> fsSave(fs, msg, ioFails).err,
               files |-> fsSave(fs, msg, ioFails).files, rows |-> tbl]
         ELSE [err |-> sqliteSaveMSG(tbl, msg, ioFails).err,
               files |-> fs, rows |-> sqliteSaveMSG(tbl, msg, ioFails).rows]

(***************************************************************************)
(* Webhook registry.  The filesystem backend keeps one file per webhook    *)
(* under webhooks/, named like a message file; sqlite keeps a row per id;  *)
(* noop keeps nothing.                                                     *)
(***************************************************************************)
hookA ==
    [ID |-> <<"a">>, URL |-> "http://a.example/hook", Enabled |-> TRUE,
     Events |-> <<"bounce">>, Secret |-> "s3cret",
     CreatedAt |-> 1, UpdatedAt |-> 1]

hookB ==
    [ID |-> <<"b">>, URL |-> "http://b.example/hook", Enabled |-> TRUE,
     Events |-> <<"delivered", "bounce", "Processed">>, Secret |-> "",
     CreatedAt |-> 2, UpdatedAt |-> 2]

TestHooks == {hookA, hookB}

webhookFile(id) == filename(id)

webhookKey(b, id) == IF b = "filesystem" THEN webhookFile(id) ELSE id

\* WebhookStore.Create: the registry afterwards (noop stores nothing; the
\* filesystem backend refuses an empty id; an id that is already present is
\* refused).
Create(b, reg, hook) ==
    IF b = "noop" \/ (b = "filesystem" /\ hook.ID = <<>>)
       \/ webhookKey(b, hook.ID) \in DOMAIN reg
    THEN reg
    ELSE [k \in DOMAIN reg \cup {webhookKey(b, hook.ID)} |->
             IF k = webhookKey(b, hook.ID) THEN hook ELSE reg[k]]

\* WebhookStore.UpdateWebhook: filesystem stamps UpdatedAt, sqlite writes the
\* columns as passed.
UpdateWebhook(b, reg, hook, t) ==
    IF webhookKey(b, hook.ID) \notin DOMAIN reg THEN reg
    ELSE IF b = "filesystem"
         THEN [reg EXCEPT ![webhookKey(b, hook.ID)] = [hook EXCEPT !.UpdatedAt = t]]
         ELSE [reg EXCEPT ![webhookKey(b, hook.ID)] =
                  [hook EXCEPT !.CreatedAt = reg[webhookKey(b, hook.ID)].CreatedAt]]

ListResult(hooks, err) == [hooks |-> hooks, err |-> err]

\* A webhook file that os.WriteFile has opened with O_TRUNC and not yet
\* written: no bytes, which json.Unmarshal refuses.
EmptyFile == [size |-> 0]

\* ListEnabledWebhooks: filesystem lists the directory in name order and leaves
\* out every file it cannot read or decode, sqlite orders by created_at DESC;
\* either may fail.
ListEnabled(b, reg) ==
    IF b = "noop" THEN {ListResult(<<>>, ErrNil)}
    ELSE LET enabled == {k \in DOMAIN reg : reg[k] # EmptyFile /\ reg[k].Enabled}
             Newer(x, y) == reg[x].CreatedAt > reg[y].CreatedAt
             orders == IF b = "filesystem" THEN OrderedSeqs(enabled, NameLess)
                                           ELSE OrderedSeqs(enabled, Newer)
         IN  {ListResult([i \in 1..Len(ks) |-> reg[ks[i]]], ErrNil) : ks \in orders}
             \cup {ListResult(<<>>, ErrIO)}

(***************************************************************************)
(* Dispatcher: event payload, signature, request, classification of the    *)
(* response.                                                               *)
(***************************************************************************)
MaxRetries == 3
InitialBackoff == 1

EventFields ==
    {"event_id", "event", "timestamp", "sg_message_id", "email", "from", "subject",
     "status", "reason"}

EventOmitEmpty == {"from", "subject", "status", "reason"}

DispatchArgs(msgID, email, from, subject, status, reason) ==
    [msgID |-> msgID, email |-> email, from |-> from, subject |-> subject,
     status |-> status, reason |-> reason]

\* The Event that send builds at clock reading t.
Event(args, t) ==
    [event_id |-> <<t, "-", args.msgID>>, event |-> args.status, timestamp |-> t,
     sg_message_id |-> args.msgID, email |-> args.email, from |-> args.from,
     subject |-> args.subject, status |-> args.status, reason |-> args.reason]

\* json.Marshal(event): the payload bytes, as the fields that are written.
MarshalEvent(ev) ==
    LET kept == {f \in EventFields : ~(f \in EventOmitEmpty /\ ev[f] = "")}
    IN  [f \in kept |-> ev[f]]

\* hex(HMAC-SHA256(secret, payload)), kept symbolic: equal digests have equal
\* key and equal data.
HmacSha256Hex(key, data) == [alg |-> "hmac-sha256-hex", key |-> key, data |-> data]

\* A digest that leaves the secret out.
generateSignature_Unkeyed(payload, secret) == HmacSha256Hex("", payload)

generateSignature(payload, secret) == HmacSha256Hex(secret, payload)

SignatureHeader == "X-Twilio-Signature"

\* The headers send sets on the request.
RequestHeaders(hook, payload) ==
    LET names == {"Content-Type", "User-Agent"}
                 \cup (IF hook.Secret # "" THEN {SignatureHeader} ELSE {})
    IN  [h \in names |->
            IF h = "Content-Type" THEN "application/json"
            ELSE IF h = "User-Agent" THEN "mockgrid/1.0"
            ELSE generateSignature(payload, hook.Secret)]

BuildRequest(hook, args, t) ==
    LET payload == MarshalEvent(Event(args, t))
    IN  [Method |-> "POST", URL |-> hook.URL, Body |-> payload,
         Headers |-> RequestHeaders(hook, payload)]

\* What the endpoint can answer: a transport error, or a status code.
TransportError == [err |-> TRUE, code |-> 0]
HTTPStatus(code) == [err |-> FALSE, code |-> code]
StatusCodes == {199, 200, 299, 300}
Responses == {TransportError} \cup {HTTPStatus(c) : c \in StatusCodes}

\* A send that takes every status below 400 for a success.
SendSucceeds_Below400(resp) == ~resp.err /\ resp.code < 400

\* send returns nil exactly for a response with a 2xx status.
SendSucceeds(resp) == ~resp.err /\ ~(resp.code < 200 \/ resp.code >= 300)

\* A subscription test that ignores case.
Lower(str) ==
    IF str = "Processed" THEN "processed"
    ELSE IF str = "Delivered" THEN "delivered"
    ELSE IF str = "Bounce" THEN "bounce"
    ELSE str

isSubscribed_IgnoreCase(hook, eventType) ==
    \E i \in 1..Len(hook.Events) : Lower(hook.Events[i]) = Lower(eventType)

isSubscribed(hook, eventType) ==
    \E i \in 1..Len(hook.Events) : hook.Events[i] = eventType

\* Index of the first hook at or after position from that the range loop of
\* dispatchAsync does not skip; Len(hooks) + 1 when the loop ends.
RECURSIVE NextSubscribed(_, _, _)
NextSubscribed(hooks, from, status) ==
    IF from > Len(hooks) THEN Len(hooks) + 1
    ELSE IF isSubscribed(hooks[from], status) THEN from
    ELSE NextSubscribed(hooks, from + 1, status)

\* No request in flight.
NoRequest == [Method |-> "none"]

\* The goroutine that `go d.dispatchAsync(...)` starts: nothing done yet.
NewUnit(args) ==
    [args |-> args, pc |-> "list", hooks |-> <<>>, idx |-> 0, attempt |-> 0,
     backoff |-> InitialBackoff, tries |-> <<>>, fails |-> <<>>, ok |-> <<>>,
     req |-> NoRequest]

DispatchMessageEvent(us, args) == Append(us, NewUnit(args))

\* A dispatcher that runs dispatchAsync on the caller's goroutine.
DispatchReturned_WhenDone(unit) == unit.pc = "done"

\* `go` returns at once: the caller never waits for the unit.
DispatchReturned(unit) == TRUE

(***************************************************************************)
(* StoreWrapper.SaveMSG, in the steps other goroutines can interleave      *)
(* with: the read of the existing record, the save with the dispatch call, *)
(* and the return.                                                         *)
(***************************************************************************)
Callers == {"c1", "c2"}

NoMessage == [f \in MessageFields |-> ZeroValue(f)]

IdleCaller(result, unit) ==
    [pc |-> "idle", msg |-> NoMessage, old |-> <<>>, result |-> result, unit |-> unit]

\* A wrapper that dispatches on every save of an existing record.
ShouldDispatch_EverySave(oldMsgs, msg) ==
    LET wasNew == Len(oldMsgs) = 0
    IN  wasNew \/ Len(oldMsgs) > 0

\* A wrapper that dispatches only when it found a record with another status.
ShouldDispatch_OnlyOnChange(oldMsgs, msg) ==
    Len(oldMsgs) > 0 /\ oldMsgs[1].Status # msg.Status

\* Line 40: wasNew || (len(oldMsgs) > 0 && oldMsgs[0].Status != msg.Status)
ShouldDispatch(oldMsgs, msg) ==
    LET wasNew == Len(oldMsgs) = 0
    IN  wasNew \/ (Len(oldMsgs) > 0 /\ oldMsgs[1].Status # msg.Status)

\* A wrapper that does not return on a failed save before it dispatches.
DispatchAfterSave_IgnoresError(err, oldMsgs, msg) == ShouldDispatch(oldMsgs, msg)

\* Lines 35-40: a failed save returns before the dispatch is considered.
DispatchAfterSave(err, oldMsgs, msg) ==
    err = ErrNil /\ ShouldDispatch(oldMsgs, msg)

\* Lines 42-49: the arguments of the dispatch call.
DispatchArgsOf(msg) ==
    DispatchArgs(msg.MsgID, msg.ToEmail, msg.FromEmail, msg.Subject, msg.Status,
                 msg.Reason)

\* Whether a successful save changes the status of the stored record.
StatusChanges(b, fs, tbl, msg) ==
    LET before == Stored(b, fs, tbl, msg.MsgID)
    IN  b # "noop" /\ (Len(before) = 0 \/ before[1].Status # msg.Status)

\* A wrapper that discards the error of the read, as in
\* oldMsgs, _ := w.wrapped.Get(...).
ReadFailed_Discarded(err) == FALSE

\* Line 29: err != nil && !errors.Is(err, ErrNotFound)
ReadFailed(err) == err # ErrNil /\ ~ErrorsIs(err, ErrNotFound)

\* Lines 28-32: read the existing record; an error other than ErrNotFound ends
\* the call.
WrapperGet(c, msg) ==
    /\ callers[c].pc = "idle"
    /\ ncalls' = ncalls + 1
    /\ \E r \in GetMSG(backend, files, rows, GetQuery(msg.MsgID, "", 0, 0)) :
          IF ReadFailed(r.err)
          THEN callers' = [callers EXCEPT
                   ![c] = IdleCaller(Wrap("fetch existing message", r.err), 0)]
          ELSE callers' = [callers EXCEPT
                   ![c] = [pc |-> "save", msg |-> msg, old |-> r.msgs,
                           result |-> ErrNil, unit |-> 0]]
    /\ UNCHANGED <<op, closed, ntoggles, backend, files, rows, webhooks, units, now, okSaves, changes, lastSaved>>

\* Lines 34-50: save to the wrapped store, then dispatch on a new message or a
\* status change.
WrapperSave(c) ==
    /\ callers[c].pc = "save"
    /\ \E ioFails \in BOOLEAN :
          LET msg == callers[c].msg
              r == SaveMSG(backend, files, rows, msg, ioFails)
          IN  /\ files' = r.files
              /\ rows' = r.rows
              /\ okSaves' = IF r.err = ErrNil THEN okSaves + 1 ELSE okSaves
              /\ changes' = IF r.err = ErrNil /\ StatusChanges(backend, files, rows, msg)
                            THEN changes + 1 ELSE changes
              /\ lastSaved' =
                    IF r.err = ErrNil
                    THEN [k \in DOMAIN lastSaved \cup {msg.MsgID} |->
                             IF k = msg.MsgID THEN msg ELSE lastSaved[k]]
                    ELSE lastSaved
              /\ units' = IF DispatchAfterSave(r.err, callers[c].old, msg)
                          THEN DispatchMessageEvent(units, DispatchArgsOf(msg))
                          ELSE units
              /\ callers' =
                    IF r.err # ErrNil
                    THEN [callers EXCEPT ![c] = IdleCaller(r.err, 0)]
                    ELSE IF DispatchAfterSave(r.err, callers[c].old, msg)
                    THEN [callers EXCEPT ![c].pc = "dispatched",
                                         ![c].unit = Len(units) + 1]
                    ELSE [callers EXCEPT ![c] = IdleCaller(ErrNil, 0)]
    /\ UNCHANGED <<op, closed, ntoggles, backend, webhooks, now, ncalls>>

\* Lines 42-52: DispatchMessageEvent has returned; return nil.
WrapperReturn(c) ==
    /\ callers[c].pc = "dispatched"
    /\ DispatchReturned(units[callers[c].unit])
    /\ callers' = [callers EXCEPT ![c] = IdleCaller(ErrNil, callers[c].unit)]
    /\ UNCHANGED <<op, closed, ntoggles, backend, files, rows, webhooks, units, now, ncalls, okSaves, changes, lastSaved>>

(***************************************************************************)
(* The dispatch unit: dispatchAsync with sendWithRetry and send inlined.   *)
(***************************************************************************)
\* After sendWithRetry returns for hook idx: the range loop moves on.
AdvanceUnit(unit) ==
    LET next == NextSubscribed(unit.hooks, unit.idx + 1, unit.args.status)
    IN  [unit EXCEPT !.idx = next, !.attempt = 0, !.backoff = InitialBackoff,
                     !.pc = IF next > Len(unit.hooks) THEN "done" ELSE "send"]

\* Units that have been scheduled at least once.
Started == {u \in 1..Len(units) : units[u].pc # "list"}

\* A dispatch that lists again when the listing failed.
AfterList_ListsAgain(unit, r) ==
    IF r.err # ErrNil THEN unit
    ELSE IF Len(r.hooks) = 0 THEN [unit EXCEPT !.pc = "done"]
    ELSE AdvanceUnit([unit EXCEPT !.hooks = r.hooks,
                                  !.tries = [i \in 1..Len(r.hooks) |-> 0],
                                  !.fails = [i \in 1..Len(r.hooks) |-> 0],
                                  !.ok = [i \in 1..Len(r.hooks) |-> FALSE]])

\* Lines 99-109: the unit after ListEnabledWebhooks returned r: an error or
\* an empty list ends it; otherwise the range loop starts.
AfterList(unit, r) ==
    IF r.err # ErrNil \/ Len(r.hooks) = 0
    THEN [unit EXCEPT !.pc = "done"]
    ELSE AdvanceUnit([unit EXCEPT !.hooks = r.hooks,
                                  !.tries = [i \in 1..Len(r.hooks) |-> 0],
                                  !.fails = [i \in 1..Len(r.hooks) |-> 0],
                                  !.ok = [i \in 1..Len(r.hooks) |-> FALSE]])

\* Lines 98-117: list the enabled webhooks once; stop on an error or an empty
\* list; otherwise go to the first subscribed hook.
UnitList(u) ==
    /\ u \in 1..Len(units)
    /\ units[u].pc = "list"
    /\ Cardinality(Started) < MaxStarted
    /\ \E r \in ListEnabled(backend, webhooks) :
          units' = [units EXCEPT ![u] = AfterList(@, r)]
    /\ UNCHANGED <<op, closed, ntoggles, backend, files, rows, webhooks, callers, now, ncalls, okSaves, changes, lastSaved>>

\* A send that looks the webhook up in the registry again and posts to what it
\* finds there.
UnitSend_ReadsRegistry(u) ==
    /\ u \in 1..Len(units)
    /\ units[u].pc = "send"
    /\ LET listed == units[u].hooks[units[u].idx]
           key == webhookKey(backend, listed.ID)
           hook == IF key \in DOMAIN webhooks /\ webhooks[key] # EmptyFile
                   THEN webhooks[key] ELSE listed
       IN  units' = [units EXCEPT
               ![u].req = BuildRequest(hook, units[u].args, now),
               ![u].tries[units[u].idx] = @ + 1,
               ![u].pc = "await"]
    /\ UNCHANGED <<op, closed, ntoggles, backend, files, rows, webhooks, callers, now, ncalls, okSaves, changes, lastSaved>>

\* Lines 130, 152-184: send builds the event and the request and hands it to the
\* HTTP client; the unit waits for the answer.
UnitSend(u) ==
    /\ u \in 1..Len(units)
    /\ units[u].pc = "send"
    /\ units' = [units EXCEPT
           ![u].req = BuildRequest(units[u].hooks[units[u].idx], units[u].args, now),
           ![u].tries[units[u].idx] = @ + 1,
           ![u].pc = "await"]
    /\ UNCHANGED <<op, closed, ntoggles, backend, files, rows, webhooks, callers, now, ncalls, okSaves, changes, lastSaved>>

\* A loop bound that is off by one.
MoreAttempts_OffByOne(attempt) == attempt + 1 <= MaxRetries

\* Line 129: the loop runs while attempt < maxRetries; after attempt number
\* `attempt` (from 0) another one follows when attempt + 1 < maxRetries.
MoreAttempts(attempt) == attempt + 1 < MaxRetries

\* A retry loop whose exhaustion ends the whole dispatch.
AfterAttempt_GivesUp(unit, resp) ==
    LET back == [unit EXCEPT !.req = NoRequest]
        failed == [back EXCEPT !.fails[unit.idx] = @ + 1]
    IN  IF SendSucceeds(resp)
        THEN AdvanceUnit([back EXCEPT !.ok[unit.idx] = TRUE])
        ELSE IF MoreAttempts(unit.attempt)
        THEN [failed EXCEPT !.pc = "sleep"]
        ELSE [failed EXCEPT !.pc = "done"]

\* A dispatcher that leaves a webhook after its first failed attempt.
AfterAttempt_NoRetry(unit, resp) ==
    LET back == [unit EXCEPT !.req = NoRequest]
    IN  IF SendSucceeds(resp)
        THEN AdvanceUnit([back EXCEPT !.ok[unit.idx] = TRUE])
        ELSE AdvanceUnit([back EXCEPT !.fails[unit.idx] = @ + 1])

\* The unit after the answer to one attempt of sendWithRetry's loop
\* (lines 130-143, 184-198).
AfterAttempt(unit, resp) ==
    LET back == [unit EXCEPT !.req = NoRequest]
        failed == [back EXCEPT !.fails[unit.idx] = @ + 1]
    IN  IF SendSucceeds(resp)
        THEN AdvanceUnit([back EXCEPT !.ok[unit.idx] = TRUE])
        ELSE IF MoreAttempts(unit.attempt)
        THEN [failed EXCEPT !.pc = "sleep"]
        ELSE AdvanceUnit(failed)

\* A dispatcher that marks the stored messages dropped when a delivery fails.
UnitResponse_MarksDropped(u) ==
    /\ u \in 1..Len(units)
    /\ units[u].pc = "await"
    /\ \E resp \in Responses :
          /\ units' = [units EXCEPT ![u] = AfterAttempt(@, resp)]
          /\ rows' = IF SendSucceeds(resp) THEN rows
                     ELSE [k \in DOMAIN rows |-> [rows[k] EXCEPT !.Status = StatusDropped]]
          /\ files' = IF SendSucceeds(resp) THEN files
                      ELSE [k \in DOMAIN files |-> [files[k] EXCEPT !.Status = StatusDropped]]
    /\ UNCHANGED <<op, closed, ntoggles, backend, webhooks, callers, now, ncalls, okSaves, changes, lastSaved>>

\* The HTTP client returns: an answer from the endpoint, a transport error or
\* the client's timeout.
UnitResponse(u) ==
    /\ u \in 1..Len(units)
    /\ units[u].pc = "await"
    /\ \E resp \in Responses : units' = [units EXCEPT ![u] = AfterAttempt(@, resp)]
    /\ UNCHANGED <<op, closed, ntoggles, backend, files, rows, webhooks, callers, now, ncalls, okSaves, changes, lastSaved>>

\* A backoff that stays at its first value.
AfterSleep_ConstantBackoff(unit) ==
    [unit EXCEPT !.attempt = @ + 1, !.pc = "send"]

\* A retry loop whose counter does not advance.
AfterSleep_SameAttempt(unit) ==
    [unit EXCEPT !.backoff = @ * 2, !.pc = "send"]

\* Lines 141-142 and the loop increment: after time.Sleep(backoff) the backoff
\* doubles and the next attempt starts.
AfterSleep(unit) ==
    [unit EXCEPT !.backoff = @ * 2, !.attempt = @ + 1, !.pc = "send"]

\* Lines 140-143 and the loop increment: sleep, double the backoff, next attempt.
UnitSleep(u) ==
    /\ u \in 1..Len(units)
    /\ units[u].pc = "sleep"
    /\ now' = now + units[u].backoff
    /\ units' = [units EXCEPT ![u] = AfterSleep(@)]
    /\ UNCHANGED <<op, closed, ntoggles, backend, files, rows, webhooks, callers, ncalls, okSaves, changes, lastSaved>>

UnitStep(u) == UnitList(u) \/ UnitSend(u) \/ UnitResponse(u) \/ UnitSleep(u)

(***************************************************************************)
(* Registry operations that run beside the message flow.                   *)
(***************************************************************************)
\* HandleToggleWebhook for a registered hook: read it, flip Enabled, update it.
\* (For an id that is not registered the handler answers 404 and changes nothing.)
ToggleWebhook(id) ==
    /\ ntoggles < MaxToggles
    /\ webhookKey(backend, id) \in DOMAIN webhooks
    /\ ntoggles' = ntoggles + 1
    /\ LET hook == webhooks[webhookKey(backend, id)]
       IN  webhooks' = UpdateWebhook(backend, webhooks,
                                     [hook EXCEPT !.Enabled = ~hook.Enabled], now)
    /\ UNCHANGED <<op, closed, backend, files, rows, callers, units, now, ncalls, okSaves, changes, lastSaved>>

(***************************************************************************)
(* Specifications.                                                         *)
(***************************************************************************)
Backends == {"noop", "filesystem", "sqlite"}

\* No direct call has been made.
NoOp == <<>>

EmptyMap == [k \in {} |-> k]

\* The registries that Create calls leave behind before the message flow starts.
InitialRegistries(b) ==
    {Create(b, Create(b, EmptyMap, h1), h2) : h1 \in TestHooks, h2 \in TestHooks}

Init ==
    /\ backend \in Backends
    /\ files = EmptyMap
    /\ rows = EmptyMap
    /\ webhooks \in InitialRegistries(backend)
    /\ callers = [c \in Callers |-> IdleCaller(ErrNil, 0)]
    /\ units = <<>>
    /\ ntoggles = 0
    /\ now = 0
    /\ ncalls = 0
    /\ okSaves = 0
    /\ changes = 0
    /\ lastSaved = EmptyMap
    /\ op = NoOp
    /\ closed = FALSE

Next ==
    \/ \E c \in Callers, msg \in TestMessages : ncalls < MaxCalls /\ WrapperGet(c, msg)
    \/ \E c \in Callers : WrapperSave(c)
    \/ \E c \in Callers : WrapperReturn(c)
    \/ \E u \in 1..Len(units) : UnitList(u)
    \/ \E u \in 1..Len(units) : UnitSend(u)
    \/ \E u \in 1..Len(units) : UnitResponse(u)
    \/ \E u \in 1..Len(units) : UnitSleep(u)
    \/ \E hook \in TestHooks : ToggleWebhook(hook.ID)

Spec == Init /\ [][Next]_vars

\* The same program with a single caller, whose SaveMSG calls therefore follow
\* one another.
SeqCallers == {"c1"}

SeqNext ==
    \/ \E c \in SeqCallers, msg \in TestMessages : ncalls < MaxSeqCalls /\ WrapperGet(c, msg)
    \/ \E c \in SeqCallers : WrapperSave(c)
    \/ \E c \in SeqCallers : WrapperReturn(c)
    \/ \E u \in 1..Len(units) : UnitList(u)
    \/ \E u \in 1..Len(units) : UnitSend(u)
    \/ \E u \in 1..Len(units) : UnitResponse(u)
    \/ \E u \in 1..Len(units) : UnitSleep(u)
    \/ \E hook \in TestHooks : ToggleWebhook(hook.ID)

SeqSpec == Init /\ [][SeqNext]_vars

\* The single-caller program under the scheduling the runtime guarantees: the
\* Go scheduler runs every runnable goroutine, a sleep ends, and the HTTP
\* client's timeout makes every attempt return, so each unit keeps taking steps.
FairNext ==
    \/ \E c \in SeqCallers, msg \in TestMessages : ncalls < MaxFairCalls /\ WrapperGet(c, msg)
    \/ \E c \in SeqCallers : WrapperSave(c)
    \/ \E c \in SeqCallers : WrapperReturn(c)
    \/ \E u \in 1..Len(units) : UnitList(u)
    \/ \E u \in 1..Len(units) : UnitSend(u)
    \/ \E u \in 1..Len(units) : UnitResponse(u)
    \/ \E u \in 1..Len(units) : UnitSleep(u)
    \/ \E hook \in TestHooks : ToggleWebhook(hook.ID)

FairSpec == Init /\ [][FairNext]_vars /\ \A u \in 1..MaxFairCalls : WF_vars(UnitStep(u))

(***************************************************************************)
(* The Message Store called directly, as the contract tests call it:       *)
(* SaveMSG, GetMSG and Close on one backend, one call after another.       *)
(***************************************************************************)
\* database/sql: Close marks the pool closed; a second Close returns nil.
\* The noop and filesystem Close return nil.
sqliteClose_ErrorsWhenClosed(wasClosed) ==
    IF wasClosed THEN <<"sql: database is closed">> ELSE ErrNil

sqliteClose(wasClosed) == ErrNil

\* StoreWrapper.Close delegates to the wrapped store's Close.
Close(b, wasClosed) == IF b = "sqlite" THEN sqliteClose(wasClosed) ELSE ErrNil

\* Whether a call can fail on I/O: the noop store does none, and a closed
\* sqlite pool fails every statement.
IOOutcomes(b, isClosed) ==
    IF b = "noop" THEN {FALSE}
    ELSE IF b = "sqlite" /\ isClosed THEN {TRUE}
    ELSE BOOLEAN

\* An error that stems from the backend's I/O.
IsIOError(err) == ErrorsIs(err, ErrIO)

StoreQueries ==
    {GetQuery(idM, "", 0, 0), GetQuery(idAM, "", 0, 0), GetQuery(idEmpty, "", 0, 0),
     GetQuery(idEmpty, StatusDelivered, 1, 0)}

StoreSave(msg) ==
    /\ Len(op) < MaxStoreOps
    /\ \E ioFails \in IOOutcomes(backend, closed) :
          LET r == SaveMSG(backend, files, rows, msg, ioFails)
          IN  /\ files' = r.files
              /\ rows' = r.rows
              /\ lastSaved' =
                    IF r.err = ErrNil
                    THEN [k \in DOMAIN lastSaved \cup {msg.MsgID} |->
                             IF k = msg.MsgID THEN msg ELSE lastSaved[k]]
                    ELSE lastSaved
              /\ op' = Append(op, [name |-> "save", msg |-> msg, err |-> r.err])
    /\ UNCHANGED <<backend, webhooks, callers, units, ntoggles, now, ncalls, okSaves, changes, closed>>

StoreGet(query) ==
    /\ Len(op) < MaxStoreOps
    /\ \E r \in GetMSG(backend, files, rows, query) :
          /\ (backend = "sqlite" /\ closed) => IsIOError(r.err)
          /\ op' = Append(op, [name |-> "get", query |-> query, msgs |-> r.msgs,
                                err |-> r.err])
    /\ UNCHANGED <<backend, files, rows, webhooks, callers, units, ntoggles, now, ncalls, okSaves, changes, lastSaved, closed>>

StoreClose ==
    /\ Len(op) < MaxStoreOps
    /\ closed' = TRUE
    /\ op' = Append(op, [name |-> "close", err |-> Close(backend, closed)])
    /\ UNCHANGED <<backend, files, rows, webhooks, callers, units, ntoggles, now, ncalls, okSaves, changes, lastSaved>>

StoreInit ==
    /\ backend \in Backends
    /\ files = EmptyMap
    /\ rows = EmptyMap
    /\ webhooks = EmptyMap
    /\ callers = [c \in Callers |-> IdleCaller(ErrNil, 0)]
    /\ units = <<>>
    /\ ntoggles = 0
    /\ now = 0
    /\ ncalls = 0
    /\ okSaves = 0
    /\ changes = 0
    /\ lastSaved = EmptyMap
    /\ op = NoOp
    /\ closed = FALSE

StoreNext ==
    \/ \E msg \in TestMessages : StoreSave(msg)
    \/ \E query \in StoreQueries : StoreGet(query)
    \/ StoreClose

StoreSpec == StoreInit /\ [][StoreNext]_vars

(***************************************************************************)
(* Listing: a store that already holds a number of messages, saved one by  *)
(* one under distinct ids, then further saves and list queries.            *)
(***************************************************************************)
\* The k-th message id: seven letters, k written in binary with a for 0 and
\* b for 1.
PopID(k) ==
    [i \in 1..7 |-> IF (k \div (2 ^ (7 - i))) % 2 = 1 THEN "b" ELSE "a"]

PopStatus(k) ==
    IF k % 3 = 0 THEN StatusDelivered
    ELSE IF k % 3 = 1 THEN StatusProcessed
    ELSE StatusBounce

PopMsg(k) ==
    [msgM1 EXCEPT !.MsgID = PopID(k), !.Status = PopStatus(k), !.Timestamp = 10 + k]

\* Numbers of messages saved before the listing starts.
ListSizes == {0, 3, 101}

\* The files after SaveMSG(PopMsg(1)), ..., SaveMSG(PopMsg(n)) on an empty
\* filesystem store.
PopFiles(n) ==
    [name \in {filename(PopID(k)) : k \in 1..n} |->
        MarshalMessage(PopMsg(CHOOSE k \in 1..n : filename(PopID(k)) = name))]

\* The rows after the same saves on an empty sqlite store.
PopRows(n) ==
    [id \in {PopID(k) : k \in 1..n} |-> PopMsg(CHOOSE k \in 1..n : PopID(k) = id)]

\* Later saves: a stored message with a new status, and a new message.
ListMessages ==
    {[PopMsg(1) EXCEPT !.Status = StatusDelivered],
     [PopMsg(3) EXCEPT !.Status = StatusBounce],
     PopMsg(120)}

ListQueries ==
    {GetQuery(idEmpty, st, lim, 0) :
        st \in {"", StatusDelivered, StatusBounce}, lim \in {0, 1, 3}}
    \cup {GetQuery(idEmpty, StatusDelivered, 3, 1)}

ListSave(msg) ==
    /\ Len(op) < MaxListOps
    /\ StoreSave(msg)

ListGet(query) ==
    /\ Len(op) < MaxListOps
    /\ StoreGet(query)

ListInit ==
    /\ backend \in {"filesystem", "sqlite"}
    /\ \E n \in ListSizes :
          /\ files = IF backend = "filesystem" THEN PopFiles(n) ELSE EmptyMap
          /\ rows = IF backend = "sqlite" THEN PopRows(n) ELSE EmptyMap
          /\ lastSaved = PopRows(n)
    /\ webhooks = EmptyMap
    /\ callers = [c \in Callers |-> IdleCaller(ErrNil, 0)]
    /\ units = <<>>
    /\ ntoggles = 0
    /\ now = 0
    /\ ncalls = 0
    /\ okSaves = 0
    /\ changes = 0
    /\ op = NoOp
    /\ closed = FALSE

ListNext ==
    \/ \E msg \in ListMessages : ListSave(msg)
    \/ \E query \in ListQueries : ListGet(query)

ListSpec == ListInit /\ [][ListNext]_vars

(***************************************************************************)
(* The delivery classifier of the send pipeline.  Failure texts are        *)
(* sequences of characters, so that strings.Contains is a substring test.  *)
(***************************************************************************)
\* strings.Contains(text, sub)
Contains(text, sub) ==
    \E i \in 1..(Len(text) - Len(sub) + 1) : SubSeq(text, i, i + Len(sub) - 1) = sub


\* A send error: nil, or an error with its text.
NilError == [isNil |-> TRUE, text |-> <<>>]
ErrorText(text) == [isNil |-> FALSE, text |-> text]

\* A classifier that tests the temporary codes before the permanent ones.
classifyDeliveryResult_TemporaryFirst(err) ==
    IF err.isNil THEN [status |-> StatusDelivered, reason |-> <<>>]
    ELSE IF Contains(err.text, <<"4", "2", "1">>) \/ Contains(err.text, <<"4", "5", "0">>)
            \/ Contains(err.text, <<"4", "5", "1">>) \/ Contains(err.text, <<"4", "5", "2">>)
    THEN [status |-> StatusBlocked, reason |-> err.text]
    ELSE IF Contains(err.text, <<"5", "5", "0">>) \/ Contains(err.text, <<"5", "5", "1">>)
            \/ Contains(err.text, <<"5", "5", "2">>) \/ Contains(err.text, <<"5", "5", "3">>)
            \/ Contains(err.text, <<"5", "5", "4">>)
    THEN [status |-> StatusBounce, reason |-> err.text]
    ELSE IF Contains(err.text, <<"c", "o", "n", "n", "e", "c", "t", "i", "o", "n">>) \/ Contains(err.text, <<"t", "i", "m", "e", "o", "u", "t">>)
            \/ Contains(err.text, <<"d", "i", "a", "l">>)
    THEN [status |-> StatusDeferred, reason |-> err.text]
    ELSE [status |-> StatusBounce, reason |-> err.text]

classifyDeliveryResult(err) ==
    IF err.isNil THEN [status |-> StatusDelivered, reason |-> <<>>]
    ELSE IF Contains(err.text, <<"5", "5", "0">>) \/ Contains(err.text, <<"5", "5", "1">>)
            \/ Contains(err.text, <<"5", "5", "2">>) \/ Contains(err.text, <<"5", "5", "3">>)
            \/ Contains(err.text, <<"5", "5", "4">>)
    THEN [status |-> StatusBounce, reason |-> err.text]
    ELSE IF Contains(err.text, <<"4", "2", "1">>) \/ Contains(err.text, <<"4", "5", "0">>)
            \/ Contains(err.text, <<"4", "5", "1">>) \/ Contains(err.text, <<"4", "5", "2">>)
    THEN [status |-> StatusBlocked, reason |-> err.text]
    ELSE IF Contains(err.text, <<"c", "o", "n", "n", "e", "c", "t", "i", "o", "n">>) \/ Contains(err.text, <<"t", "i", "m", "e", "o", "u", "t">>)
            \/ Contains(err.text, <<"d", "i", "a", "l">>)
    THEN [status |-> StatusDeferred, reason |-> err.text]
    ELSE [status |-> StatusBounce, reason |-> err.text]

\* Failure texts: the examples of the classifier's contract, and every text
\* put together from up to three of a few fragments.
text550 == <<"5", "5", "0", " ", "m", "a", "i", "l", "b", "o", "x", " ", "u", "n", "a", "v", "a", "i", "l", "a", "b", "l", "e">>
text421 == <<"4", "2", "1", " ", "t", "o", "o", " ", "b", "u", "s", "y">>
textDial == <<"d", "i", "a", "l", " ", "t", "c", "p", ":", " ", "t", "i", "m", "e", "o", "u", "t">>
textGremlin == <<"u", "n", "e", "x", "p", "e", "c", "t", "e", "d", " ", "g", "r", "e", "m", "l", "i", "n">>
Fragments ==
    {<<"5">>,
     <<"5", "0">>,
     <<"5", "5", "0">>,
     <<"5", "4">>,
     <<"4", "2", "1">>,
     <<"4", "5">>,
     <<"1">>,
     <<"d", "i", "a", "l">>,
     <<"t", "i", "m", "e", "o", "u", "t">>,
     <<"c", "o", "n", "n", "e", "c", "t", "i", "o", "n">>,
     <<"g", "r", "e", "m", "l", "i", "n">>,
     <<" ">>}

FailureTexts ==
    {text550, text421, textDial, textGremlin, <<>>}
    \cup Fragments
    \cup {a \o b : a \in Fragments, b \in Fragments}
    \cup {a \o b \o c : a \in Fragments, b \in Fragments, c \in Fragments}

SendErrors == {NilError} \cup {ErrorText(text) : text \in FailureTexts}

\* One call of classifyDeliveryResult on the send error in op[1]; the calls
\* made so far follow it in op.
Classify ==
    /\ Len(op) >= 1
    /\ Len(op) <= MaxClassifyCalls
    /\ op[1].name = "send"
    /\ op' = Append(op, [name |-> "classify", err |-> op[1].err,
                         result |-> classifyDeliveryResult(op[1].err)])
    /\ UNCHANGED <<backend, files, rows, webhooks, callers, units, ntoggles, now, ncalls, okSaves, changes, lastSaved, closed>>

ClassifyInit ==
    /\ backend = "noop"
    /\ files = EmptyMap
    /\ rows = EmptyMap
    /\ webhooks = EmptyMap
    /\ callers = [c \in Callers |-> IdleCaller(ErrNil, 0)]
    /\ units = <<>>
    /\ ntoggles = 0
    /\ now = 0
    /\ ncalls = 0
    /\ okSaves = 0
    /\ changes = 0
    /\ lastSaved = EmptyMap
    /\ \E err \in SendErrors : op = <<[name |-> "send", err |-> err]>>
    /\ closed = FALSE

ClassifyNext == Classify

ClassifySpec == ClassifyInit /\ [][ClassifyNext]_vars


(***************************************************************************)
(* Direct calls on a Webhook Registry: create, get, update, delete, with   *)
(* the error each returns.                                                 *)
(***************************************************************************)
ErrWebhookIDRequired == <<"webhook id is required">>
ErrWebhookExists == <<"webhook already exists">>
ErrConstraint == <<"UNIQUE constraint failed: webhooks.id">>
ErrInvalid == <<"invalid argument">>
ErrSyntax == <<"unexpected end of JSON input">>

\* A Create that reports success for an id that is present.
CreateErr_IgnoresPresent(b, reg, hook, ioFails) ==
    IF b = "noop" THEN ErrNil
    ELSE IF b = "filesystem" /\ hook.ID = <<>> THEN ErrWebhookIDRequired
    ELSE IF ioFails THEN ErrIO
    ELSE ErrNil

\* The error of WebhookStore.Create.
CreateErr(b, reg, hook, ioFails) ==
    IF b = "noop" THEN ErrNil
    ELSE IF b = "filesystem"
    THEN IF hook.ID = <<>> THEN ErrWebhookIDRequired
         ELSE IF ioFails THEN ErrIO
         ELSE IF webhookFile(hook.ID) \in DOMAIN reg THEN ErrWebhookExists
         ELSE ErrNil
    ELSE IF ioFails THEN ErrIO
    ELSE IF hook.ID \in DOMAIN reg THEN ErrConstraint
    ELSE ErrNil

NoHook == <<>>

HookResult(hook, err) == [hook |-> hook, err |-> err]

\* WebhookStore.GetWebhook.  The filesystem backend reads Base(id) + ".json"
\* through os.DirFS, which refuses a name starting with a slash.
GetWebhook(b, reg, id, ioFails) ==
    IF b = "noop" THEN HookResult(NoHook, ErrNotFound)
    ELSE IF b = "filesystem"
    THEN IF Base(id) = <<"/">> THEN HookResult(NoHook, ErrInvalid)
         ELSE IF webhookFile(id) \notin DOMAIN reg THEN HookResult(NoHook, ErrNotFound)
         ELSE IF ioFails THEN HookResult(NoHook, ErrIO)
         ELSE IF reg[webhookFile(id)] = EmptyFile THEN HookResult(NoHook, ErrSyntax)
         ELSE HookResult(reg[webhookFile(id)], ErrNil)
    ELSE IF ioFails THEN HookResult(NoHook, ErrIO)
    ELSE IF id \notin DOMAIN reg THEN HookResult(NoHook, ErrNotFound)
    ELSE HookResult(reg[id], ErrNil)

\* The error of WebhookStore.UpdateWebhook: sqlite returns the error of the
\* UPDATE statement only.
UpdateWebhookErr(b, reg, hook, ioFails) ==
    IF b = "noop" THEN ErrNotFound
    ELSE IF b = "filesystem"
    THEN IF webhookFile(hook.ID) \notin DOMAIN reg THEN ErrNotFound
         ELSE IF ioFails THEN ErrIO
         ELSE ErrNil
    ELSE IF ioFails THEN ErrIO ELSE ErrNil

\* WebhookStore.DeleteWebhook: the registry afterwards.
DeleteWebhook(b, reg, id) ==
    IF b = "noop" THEN reg
    ELSE [k \in DOMAIN reg \ {webhookKey(b, id)} |-> reg[k]]

\* The error of WebhookStore.DeleteWebhook: sqlite returns the error of the
\* DELETE statement only.
DeleteWebhookErr(b, reg, id, ioFails) ==
    IF b = "noop" THEN ErrNotFound
    ELSE IF b = "filesystem"
    THEN IF webhookFile(id) \notin DOMAIN reg THEN ErrNotFound
         ELSE IF ioFails THEN ErrIO
         ELSE ErrNil
    ELSE IF ioFails THEN ErrIO ELSE ErrNil

\* hookA's id with another URL and switched off; webhooks whose ids hold or
\* are a path separator.
hookA2 == [hookA EXCEPT !.URL = "http://other.example/hook", !.Enabled = FALSE]
hookXA == [hookB EXCEPT !.ID = <<"x", "/", "a">>]
hookSlash == [hookB EXCEPT !.ID = <<"/">>]

RegistryHooks == {hookA, hookA2, hookB, hookXA, hookSlash}

RegistryIDs == {hook.ID : hook \in RegistryHooks}

RegCreate(hook) ==
    /\ Len(op) < MaxRegistryOps
    /\ \E ioFails \in IOOutcomes(backend, closed) :
          LET err == CreateErr(backend, webhooks, hook, ioFails)
              after == IF err = ErrNil THEN Create(backend, webhooks, hook) ELSE webhooks
          IN  /\ webhooks' = after
              /\ op' = Append(op, [name |-> "create", id |-> hook.ID, hook |-> hook,
                                   io |-> ioFails, err |-> err,
                                   before |-> webhooks, after |-> after])
    /\ UNCHANGED <<backend, files, rows, callers, units, ntoggles, now, ncalls, okSaves, changes, lastSaved, closed>>

RegGet(id) ==
    /\ Len(op) < MaxRegistryOps
    /\ \E ioFails \in IOOutcomes(backend, closed) :
          LET r == GetWebhook(backend, webhooks, id, ioFails)
          IN  op' = Append(op, [name |-> "get", id |-> id, hook |-> r.hook,
                                io |-> ioFails, err |-> r.err,
                                before |-> webhooks, after |-> webhooks])
    /\ UNCHANGED <<backend, files, rows, webhooks, callers, units, ntoggles, now, ncalls, okSaves, changes, lastSaved, closed>>

RegUpdate(hook) ==
    /\ Len(op) < MaxRegistryOps
    /\ \E ioFails \in IOOutcomes(backend, closed) :
          LET err == UpdateWebhookErr(backend, webhooks, hook, ioFails)
              after == IF err = ErrNil
                       THEN UpdateWebhook(backend, webhooks, hook, now)
                       ELSE webhooks
          IN  /\ webhooks' = after
              /\ op' = Append(op, [name |-> "update", id |-> hook.ID, hook |-> hook,
                                   io |-> ioFails, err |-> err,
                                   before |-> webhooks, after |-> after])
    /\ UNCHANGED <<backend, files, rows, callers, units, ntoggles, now, ncalls, okSaves, changes, lastSaved, closed>>

RegDelete(id) ==
    /\ Len(op) < MaxRegistryOps
    /\ \E ioFails \in IOOutcomes(backend, closed) :
          LET err == DeleteWebhookErr(backend, webhooks, id, ioFails)
              after == IF err = ErrNil THEN DeleteWebhook(backend, webhooks, id)
                       ELSE webhooks
          IN  /\ webhooks' = after
              /\ op' = Append(op, [name |-> "delete", id |-> id, hook |-> NoHook,
                                   io |-> ioFails, err |-> err,
                                   before |-> webhooks, after |-> after])
    /\ UNCHANGED <<backend, files, rows, callers, units, ntoggles, now, ncalls, okSaves, changes, lastSaved, closed>>

RegistryInit ==
    /\ backend \in Backends
    /\ files = EmptyMap
    /\ rows = EmptyMap
    /\ webhooks = EmptyMap
    /\ callers = [c \in Callers |-> IdleCaller(ErrNil, 0)]
    /\ units = <<>>
    /\ ntoggles = 0
    /\ now = hookB.UpdatedAt + 1
    /\ ncalls = 0
    /\ okSaves = 0
    /\ changes = 0
    /\ lastSaved = EmptyMap
    /\ op = NoOp
    /\ closed = FALSE

RegistryNext ==
    \/ \E hook \in RegistryHooks : RegCreate(hook)
    \/ \E id \in RegistryIDs : RegGet(id)
    \/ \E hook \in RegistryHooks : RegUpdate(hook)
    \/ \E id \in RegistryIDs : RegDelete(id)

RegistrySpec == RegistryInit /\ [][RegistryNext]_vars

(***************************************************************************)
(* The send pipeline: sendMail and saveMessages of the sendmail service.   *)
(***************************************************************************)
StatusAccepted == 202
StatusBadRequest == 400
StatusInternalServerError == 500

\* err.Error() as the string stored in Message.Reason.
GoString(text) ==
    IF text = text550 THEN "550 mailbox unavailable"
    ELSE IF text = text421 THEN "421 too busy"
    ELSE IF text = textDial THEN "dial tcp: timeout"
    ELSE IF text = textGremlin THEN "unexpected gremlin"
    ELSE ""

\* A request: its personalizations, each the list of its To addresses.
SendRequests ==
    {<<<<"bob">>>>, <<<<"bob", "carol">>>>, <<<<"bob">>, <<"dave">>>>}

\* The number of To addresses of a request.
RECURSIVE CountRecipients(_)
CountRecipients(pr) ==
    IF pr = <<>> THEN 0 ELSE Len(Head(pr)) + CountRecipients(Tail(pr))

\* What the SMTP send of a personalization returned.
SendOutcomes == {NilError, ErrorText(text550), ErrorText(text421), ErrorText(textDial)}

\* What the surroundings of one sendMail call do: the result of attachFiles,
\* the error of each send, which saves fail, and the message id (0 for none)
\* whose generation fails.
SendEnvs(b, isClosed, pr) ==
    [attach : {StatusAccepted, StatusBadRequest},
     send : [1..Len(pr) -> SendOutcomes],
     io : [1..CountRecipients(pr) -> IOOutcomes(b, isClosed)],
     idFailsAt : 0..CountRecipients(pr)]

\* State of the pipeline inside one sendMail call: the store, the number of
\* message ids generated, the messages handed to SaveMSG and the errors the
\* saves returned.
PipeState(fs, tbl, n) ==
    [files |-> fs, rows |-> tbl, n |-> n, saves |-> <<>>, saveErrs |-> <<>>]

\* Service.saveMessages: one generated id and one SaveMSG per recipient; a
\* failed save is logged and the loop goes on.
RECURSIVE saveMessages(_, _, _, _, _, _, _, _)
saveMessages(b, st, first, tos, status, reason, env, t) ==
    IF tos = <<>> THEN [st |-> st, err |-> ErrNil]
    ELSE IF st.n - first + 1 = env.idFailsAt
    THEN [st |-> st, err |-> Wrap("generate message ID", ErrIO)]
    ELSE LET msg == [MsgID |-> PopID(st.n + 1), FromEmail |-> "alice",
                     ToEmail |-> Head(tos), Subject |-> "hello",
                     HTMLBody |-> "<p>hi</p>", TextBody |-> "", Status |-> status,
                     SMTPResponse |-> "", Reason |-> reason, Timestamp |-> t,
                     LastEventTime |-> t, OpensCount |-> 0, ClicksCount |-> 0]
             r == SaveMSG(b, st.files, st.rows, msg, env.io[st.n - first + 1])
             st2 == [files |-> r.files, rows |-> r.rows, n |-> st.n + 1,
                     saves |-> Append(st.saves, msg),
                     saveErrs |-> Append(st.saveErrs, r.err)]
         IN  saveMessages(b, st2, first, Tail(tos), status, reason, env, t)

\* A sendMail that returns on a failed send before it saves anything.
RECURSIVE sendMail_ReturnsBeforeSave(_, _, _, _, _, _, _)
sendMail_ReturnsBeforeSave(b, st, first, pr, k, env, t) ==
    IF k > Len(pr) THEN [code |-> StatusAccepted, st |-> st]
    ELSE IF env.attach # StatusAccepted THEN [code |-> env.attach, st |-> st]
    ELSE LET sendErr == env.send[k]
             c == classifyDeliveryResult(sendErr)
             saved == saveMessages(b, st, first, pr[k], c.status,
                                   GoString(c.reason), env, t)
         IN  IF ~sendErr.isNil
             THEN [code |-> StatusInternalServerError, st |-> st]
             ELSE sendMail_ReturnsBeforeSave(b, saved.st, first, pr, k + 1, env, t)

\* Service.sendMail from personalization k on: attach, send, classify, save,
\* and stop with an internal error when the send failed.
RECURSIVE sendMail(_, _, _, _, _, _, _)
sendMail(b, st, first, pr, k, env, t) ==
    IF k > Len(pr) THEN [code |-> StatusAccepted, st |-> st]
    ELSE IF env.attach # StatusAccepted THEN [code |-> env.attach, st |-> st]
    ELSE LET sendErr == env.send[k]
             c == classifyDeliveryResult(sendErr)
             saved == saveMessages(b, st, first, pr[k], c.status,
                                   GoString(c.reason), env, t)
         IN  IF ~sendErr.isNil
             THEN [code |-> StatusInternalServerError, st |-> saved.st]
             ELSE sendMail(b, saved.st, first, pr, k + 1, env, t)

\* Message ids generated by the sendMail calls made so far.
Generated == IF op = NoOp THEN 0 ELSE op[Len(op)].n

\* One sendMail call on a request.
SendMail(pr) ==
    /\ Len(op) < MaxSends
    /\ \E env \in SendEnvs(backend, closed, pr) :
          LET r == sendMail(backend, PipeState(files, rows, Generated), Generated,
                            pr, 1, env, now)
          IN  /\ files' = r.st.files
              /\ rows' = r.st.rows
              /\ op' = Append(op, [name |-> "sendMail", request |-> pr,
                                   sendErrs |-> env.send, code |-> r.code,
                                   attach |-> env.attach,
                                   idFailsAt |-> env.idFailsAt,
                                   saves |-> r.st.saves,
                                   saveErrs |-> r.st.saveErrs, n |-> r.st.n])
    /\ now' = now + 1
    /\ UNCHANGED <<backend, webhooks, callers, units, ntoggles, ncalls, okSaves, changes, lastSaved, closed>>

SendInit ==
    /\ backend \in Backends
    /\ files = EmptyMap
    /\ rows = EmptyMap
    /\ webhooks = EmptyMap
    /\ callers = [c \in Callers |-> IdleCaller(ErrNil, 0)]
    /\ units = <<>>
    /\ ntoggles = 0
    /\ now = 0
    /\ ncalls = 0
    /\ okSaves = 0
    /\ changes = 0
    /\ lastSaved = EmptyMap
    /\ op = NoOp
    /\ closed = FALSE

SendNext == \E pr \in SendRequests : SendMail(pr)

SendSpec == SendInit /\ [][SendNext]_vars

(***************************************************************************)
(* File paths of the filesystem backend: filepath.Join and the Clean it    *)
(* applies, on paths that are sequences of characters and names.           *)
(***************************************************************************)
\* The elements of a path: the pieces between its separators.
RECURSIVE SplitPath(_, _, _)
SplitPath(p, cur, acc) ==
    IF p = <<>> THEN Append(acc, cur)
    ELSE IF Head(p) = "/" THEN SplitPath(Tail(p), <<>>, Append(acc, cur))
    ELSE SplitPath(Tail(p), Append(cur, Head(p)), acc)

\* filepath.Clean on the elements: empty and "." elements go, ".." removes
\* the element before it, stays at the root of a rooted path and is kept at
\* the start of a relative one.
RECURSIVE CleanElems(_, _, _)
CleanElems(rooted, elems, acc) ==
    IF elems = <<>> THEN acc
    ELSE IF Head(elems) = <<>> \/ Head(elems) = <<".">>
    THEN CleanElems(rooted, Tail(elems), acc)
    ELSE IF Head(elems) = <<".", ".">>
    THEN IF Len(acc) > 0 /\ acc[Len(acc)] # <<".", ".">>
         THEN CleanElems(rooted, Tail(elems), SubSeq(acc, 1, Len(acc) - 1))
         ELSE IF rooted THEN CleanElems(rooted, Tail(elems), acc)
         ELSE CleanElems(rooted, Tail(elems), Append(acc, Head(elems)))
    ELSE CleanElems(rooted, Tail(elems), Append(acc, Head(elems)))

\* filepath.Clean: whether the path is rooted, and its elements.
Clean(p) ==
    LET rooted == Len(p) > 0 /\ p[1] = "/"
    IN  [rooted |-> rooted, elems |-> CleanElems(rooted, SplitPath(p, <<>>, <<>>), <<>>)]

\* filepath.Join of a directory and a name, both non-empty.
Join(dir, name) == Clean(dir \o <<"/">> \o name)

\* Store.filename: the path of the file of a message id.
filenamePath(dir, id) == Join(dir, Base(id) \o <<".json">>)

\* Store.webhookFile: the path of the file of a webhook id.
webhookFilePath(dir, id) == Join(dir, <<"webhooks", "/">> \o Base(id) \o <<".json">>)

\* The file GetWebhook reads: Base(id) + ".json" inside
\* os.DirFS(Join(dir, "webhooks")), which opens nothing for a name that is
\* not a valid path.
NoPath == [rooted |-> FALSE, elems |-> <<>>]

getWebhookPath(dir, id) ==
    IF Base(id) = <<"/">> THEN NoPath
    ELSE LET d == Join(dir, <<"webhooks">>)
         IN  [rooted |-> d.rooted, elems |-> Append(d.elems, Base(id) \o <<".json">>)]

\* Store directories: one rooted, one relative.
StoreDirs == {<<"/", "data">>, <<"data">>}

\* Ids: every sequence of up to MaxIDLen of a letter, the separator and the dot.
IDChars == {"a", "/", "."}

PathIDs == UNION {[1..n -> IDChars] : n \in 0..MaxIDLen}

\* The path one operation of the store uses for the id in op[1].
UsePath(kind) ==
    /\ Len(op) = 1
    /\ op[1].name = "id"
    /\ op' = Append(op,
          [name |-> kind, dir |-> op[1].dir, id |-> op[1].id,
           path |-> IF kind = "filename" THEN filenamePath(op[1].dir, op[1].id)
                    ELSE IF kind = "webhookFile"
                         THEN webhookFilePath(op[1].dir, op[1].id)
                         ELSE getWebhookPath(op[1].dir, op[1].id)])
    /\ UNCHANGED <<backend, files, rows, webhooks, callers, units, ntoggles, now, ncalls, okSaves, changes, lastSaved, closed>>

\* Save and getByID of a message.
MessagePath == UsePath("filename")

\* Create, UpdateWebhook and DeleteWebhook.
WebhookPath == UsePath("webhookFile")

\* GetWebhook.
GetWebhookPath == UsePath("getWebhook")

PathInit ==
    /\ backend = "filesystem"
    /\ files = EmptyMap
    /\ rows = EmptyMap
    /\ webhooks = EmptyMap
    /\ callers = [c \in Callers |-> IdleCaller(ErrNil, 0)]
    /\ units = <<>>
    /\ ntoggles = 0
    /\ now = 0
    /\ ncalls = 0
    /\ okSaves = 0
    /\ changes = 0
    /\ lastSaved = EmptyMap
    /\ \E dir \in StoreDirs, id \in PathIDs :
          op = <<[name |-> "id", dir |-> dir, id |-> id \o <<>>]>>
    /\ closed = FALSE

PathNext ==
    \/ MessagePath
    \/ WebhookPath
    \/ GetWebhookPath

PathSpec == PathInit /\ [][PathNext]_vars

(***************************************************************************)
(* Two concurrent saves of one id.  os.WriteFile is an open that truncates *)
(* the file followed by a write at offset 0; a file is the sequence of the *)
(* encoded fields, in struct order, closed by the final brace.             *)
(***************************************************************************)
FieldOrder ==
    <<"MsgID", "FromEmail", "ToEmail", "Subject", "HTMLBody", "TextBody", "Status",
      "SMTPResponse", "Reason", "Timestamp", "LastEventTime", "OpensCount",
      "ClicksCount">>

\* json.MarshalIndent of a Message: one piece per field that is written, then
\* the closing brace.
EncodeJSON(msg) ==
    LET Kept(f) == f \in DOMAIN MarshalMessage(msg)
        kept == SelectSeq(FieldOrder, Kept)
    IN  [i \in 1..Len(kept) |-> <<kept[i], msg[kept[i]]>>] \o <<<<"}">>>>

\* json.Unmarshal accepts one value and nothing after it.
ValidJSON(data) ==
    /\ Len(data) > 0
    /\ data[Len(data)][1] = "}"
    /\ \A i \in 1..(Len(data) - 1) : data[i][1] # "}"

DecodeJSON(data) ==
    [f \in MessageFields |->
        IF \E i \in 1..Len(data) : data[i][1] = f
        THEN data[CHOOSE i \in 1..Len(data) : data[i][1] = f][2]
        ELSE ZeroValue(f)]

\* open(name, O_WRONLY|O_CREATE|O_TRUNC)
OpenTrunc(fs, name) == WriteFile(fs, name, <<>>)

\* write(fd, data) at offset 0 of a file opened before: bytes beyond the data
\* stay as they are.
WriteAtStart(fs, name, data) ==
    WriteFile(fs, name, data \o SubSeq(fs[name], Len(data) + 1, Len(fs[name])))

\* getByID on the file as it is.
fsReadByID(fs, id) ==
    IF filename(id) \notin DOMAIN fs THEN GetResult(<<>>, ErrNotFound)
    ELSE IF ~ValidJSON(fs[filename(id)])
    THEN GetResult(<<>>, Wrap("unmarshal message", <<"invalid character after top-level value">>))
    ELSE GetResult(<<DecodeJSON(fs[filename(id)])>>, ErrNil)

\* The messages the two callers save: one id, different fields and lengths.
ConcMessages == {msgM1, msgM2, msgM3}

Saver(msg) == [pc |-> "call", msg |-> msg, old |-> <<>>, result |-> ErrNil, unit |-> 0]

\* filesystem Save up to the open of os.WriteFile.
ConcOpen(c) ==
    /\ backend = "filesystem"
    /\ callers[c].pc = "call"
    /\ files' = OpenTrunc(files, filename(callers[c].msg.MsgID))
    /\ callers' = [callers EXCEPT ![c].pc = "open"]
    /\ UNCHANGED <<rows, backend, webhooks, units, ntoggles, now, ncalls, okSaves, changes, lastSaved, op, closed>>

\* The write of os.WriteFile, and the return of Save.
ConcWrite(c) ==
    /\ backend = "filesystem"
    /\ callers[c].pc = "open"
    /\ files' = WriteAtStart(files, filename(callers[c].msg.MsgID),
                             EncodeJSON(callers[c].msg))
    /\ callers' = [callers EXCEPT ![c].pc = "returned"]
    /\ UNCHANGED <<rows, backend, webhooks, units, ntoggles, now, ncalls, okSaves, changes, lastSaved, op, closed>>

\* sqlite SaveMSG: the INSERT ... ON CONFLICT statement is one step.
ConcExec(c) ==
    /\ backend = "sqlite"
    /\ callers[c].pc = "call"
    /\ rows' = sqliteUpsert(rows, callers[c].msg)
    /\ callers' = [callers EXCEPT ![c].pc = "returned"]
    /\ UNCHANGED <<files, backend, webhooks, units, ntoggles, now, ncalls, okSaves, changes, lastSaved, op, closed>>

\* noop SaveMSG.
ConcDiscard(c) ==
    /\ backend = "noop"
    /\ callers[c].pc = "call"
    /\ callers' = [callers EXCEPT ![c].pc = "returned", ![c].result = noopSaveMSG(callers[c].msg)]
    /\ UNCHANGED <<files, rows, backend, webhooks, units, ntoggles, now, ncalls, okSaves, changes, lastSaved, op, closed>>

\* get({id}) once both saves have returned.
ConcGet ==
    /\ \A c \in Callers : callers[c].pc = "returned"
    /\ op = NoOp
    /\ LET id == callers["c1"].msg.MsgID
           r == IF backend = "noop" THEN noopGetMSG(GetQuery(id, "", 0, 0))
                ELSE IF backend = "filesystem" THEN fsReadByID(files, id)
                ELSE sqliteGetMSGByID(rows, id)
       IN  op' = <<[name |-> "get", id |-> id, msgs |-> r.msgs, err |-> r.err]>>
    /\ UNCHANGED <<files, rows, backend, webhooks, callers, units, ntoggles, now, ncalls, okSaves, changes, lastSaved, closed>>

ConcInit ==
    /\ backend \in Backends
    /\ files = EmptyMap
    /\ rows = EmptyMap
    /\ webhooks = EmptyMap
    /\ callers \in [Callers -> {Saver(msg) : msg \in ConcMessages}]
    /\ units = <<>>
    /\ ntoggles = 0
    /\ now = 0
    /\ ncalls = 0
    /\ okSaves = 0
    /\ changes = 0
    /\ lastSaved = EmptyMap
    /\ op = NoOp
    /\ closed = FALSE

ConcNext ==
    \/ \E c \in Callers : ConcOpen(c)
    \/ \E c \in Callers : ConcWrite(c)
    \/ \E c \in Callers : ConcExec(c)
    \/ \E c \in Callers : ConcDiscard(c)
    \/ ConcGet

ConcSpec == ConcInit /\ [][ConcNext]_vars

(***************************************************************************)
(* middleware.Chain.  A handler is the final handler or a middleware       *)
(* applied to a next handler; serving it yields the order of the calls.    *)
(***************************************************************************)
FinalHandler == [kind |-> "handler"]

\* m(next): the handler a middleware returns.
Apply(mw, next) == [kind |-> "middleware", mw |-> mw, next |-> next]

\* for i := len(middlewares) - 1; i >= 0; i-- { next = middlewares[i](next) }
RECURSIVE ChainLoop(_, _, _)
ChainLoop(middlewares, i, next) ==
    IF i < 1 THEN next
    ELSE ChainLoop(middlewares, i - 1, Apply(middlewares[i], next))

\* A Chain that wraps in ascending order, the last middleware outermost.
Chain_LastOutermost(middlewares, next) ==
    ChainLoop([i \in 1..Len(middlewares) |-> middlewares[Len(middlewares) + 1 - i]],
              Len(middlewares), next)

Chain(middlewares, next) == ChainLoop(middlewares, Len(middlewares), next)

\* ServeHTTP of a handler: the calls in order.  A middleware records its
\* pre-handler part, calls next if it is one that does, and records its
\* post-handler part; one that aborts answers and returns.
RECURSIVE ServeHTTP(_)
ServeHTTP(h) ==
    IF h.kind = "handler" THEN <<<<"handler", "run">>>>
    ELSE IF h.mw.callsNext
    THEN <<<<h.mw.name, "before">>>> \o ServeHTTP(h.next) \o <<<<h.mw.name, "after">>>>
    ELSE <<<<h.mw.name, "abort">>>>

\* Middlewares of the tests: three that call next, one that does not.
TestMiddlewares ==
    {[name |-> "A", callsNext |-> TRUE], [name |-> "B", callsNext |-> TRUE],
     [name |-> "C", callsNext |-> TRUE], [name |-> "abort", callsNext |-> FALSE]}

Chains == UNION {[1..n -> TestMiddlewares] : n \in 0..MaxChainLen}

\* wrapped := chain(handler)
ChainBuild ==
    /\ Len(op) = 1
    /\ op[1].name = "middlewares"
    /\ op' = Append(op, [name |-> "chain", wrapped |-> Chain(op[1].list, FinalHandler)])
    /\ UNCHANGED <<backend, files, rows, webhooks, callers, units, ntoggles, now, ncalls, okSaves, changes, lastSaved, closed>>

\* wrapped.ServeHTTP(rec, req)
ChainServe ==
    /\ Len(op) = 2
    /\ op[2].name = "chain"
    /\ op' = Append(op, [name |-> "serve", order |-> ServeHTTP(op[2].wrapped)])
    /\ UNCHANGED <<backend, files, rows, webhooks, callers, units, ntoggles, now, ncalls, okSaves, changes, lastSaved, closed>>

ChainInit ==
    /\ backend = "noop"
    /\ files = EmptyMap
    /\ rows = EmptyMap
    /\ webhooks = EmptyMap
    /\ callers = [c \in Callers |-> IdleCaller(ErrNil, 0)]
    /\ units = <<>>
    /\ ntoggles = 0
    /\ now = 0
    /\ ncalls = 0
    /\ okSaves = 0
    /\ changes = 0
    /\ lastSaved = EmptyMap
    /\ \E list \in Chains : op = <<[name |-> "middlewares", list |-> list \o <<>>]>>
    /\ closed = FALSE

ChainNext ==
    \/ ChainBuild
    \/ ChainServe

ChainSpec == ChainInit /\ [][ChainNext]_vars

(***************************************************************************)
(* Authorization of the sendmail service: the service's chain holds the    *)
(* auth middleware alone and wraps the service mux.  Keys and header       *)
(* values are sequences of characters.                                     *)
(***************************************************************************)
StatusUnauthorized == 401

BearerPrefix == <<"B", "e", "a", "r", "e", "r", " ">>

ErrUnauthorized == <<"the provided authorization grant is invalid, expired, or revoked">>

\* A checkAuth that accepts every header that ends with the key.
checkAuth_SuffixOnly(authKey, authHeader) ==
    IF authKey = <<>> THEN ErrNil
    ELSE IF Len(authHeader) >= Len(authKey)
            /\ SubSeq(authHeader, Len(authHeader) - Len(authKey) + 1, Len(authHeader)) = authKey
    THEN ErrNil
    ELSE ErrUnauthorized

\* Service.checkAuth; authHeader is r.Header.Get("Authorization"), empty when
\* the header is missing.
checkAuth(authKey, authHeader) ==
    IF authKey = <<>> THEN ErrNil
    ELSE IF authHeader # BearerPrefix \o authKey THEN ErrUnauthorized
    ELSE ErrNil

\* Service.authMiddleware on one request: it calls next when checkAuth passes.
authMiddleware(authKey, authHeader) ==
    [name |-> "auth", callsNext |-> checkAuth(authKey, authHeader) = ErrNil]

\* Configured keys: none, and keys of one or two characters.
AuthKeys == UNION {[1..n -> {"s", "t"}] : n \in 0..2}

\* What a client puts before the token.
HeaderPrefixes ==
    {BearerPrefix, <<>>, <<"b", "e", "a", "r", "e", "r", " ">>,
     <<"B", "e", "a", "r", "e", "r">>, <<"B", "e", "a", "r", "e", "r", " ", " ">>}

AuthHeaders == {pre \o key : pre \in HeaderPrefixes, key \in AuthKeys}

\* Status codes the handlers of the service mux write.
HandlerCodes == {StatusAccepted, StatusBadRequest, 415, StatusInternalServerError}

\* One request through Service.Chain()(mux).
AuthRequest ==
    /\ Len(op) = 1
    /\ op[1].name = "request"
    /\ \E code \in HandlerCodes :
          LET order == ServeHTTP(Chain(<<authMiddleware(op[1].key, op[1].header)>>,
                                       FinalHandler))
              reached == \E i \in 1..Len(order) : order[i] = <<"handler", "run">>
          IN  op' = Append(op, [name |-> "response", order |-> order,
                                reached |-> reached,
                                code |-> IF reached THEN code ELSE StatusUnauthorized])
    /\ UNCHANGED <<backend, files, rows, webhooks, callers, units, ntoggles, now, ncalls, okSaves, changes, lastSaved, closed>>

AuthInit ==
    /\ backend = "noop"
    /\ files = EmptyMap
    /\ rows = EmptyMap
    /\ webhooks = EmptyMap
    /\ callers = [c \in Callers |-> IdleCaller(ErrNil, 0)]
    /\ units = <<>>
    /\ ntoggles = 0
    /\ now = 0
    /\ ncalls = 0
    /\ okSaves = 0
    /\ changes = 0
    /\ lastSaved = EmptyMap
    /\ \E key \in AuthKeys, header \in AuthHeaders :
          op = <<[name |-> "request", key |-> key \o <<>>, header |-> header \o <<>>]>>
    /\ closed = FALSE

AuthNext == AuthRequest

AuthSpec == AuthInit /\ [][AuthNext]_vars

(***************************************************************************)
(* Configuration: the three sources and their merge at start-up.  A nil    *)
(* section pointer is NoSection; an unset string is "" and an unset        *)
(* number 0.                                                               *)
(***************************************************************************)
NoSection == <<>>

EmptyConfig ==
    [SMTPServer |-> "", SMTPPort |-> 0, LocalSendGridHost |-> "", LocalSendgridPort |-> 0,
     Templates |-> NoSection, Attachments |-> NoSection, Auth |-> NoSection,
     Storage |-> NoSection]

TemplateFields == {"Mode", "Directory", "TemplateKey"}
AuthFields == {"SendgridKey", "SMTPUser", "SMTPPass"}
StorageFields == {"Type", "Path"}

\* if over.X != nil { if base.X == nil { base.X = &X{} }; each field of over.X
\* that is set is copied }
MergeSection(base, over, fields) ==
    IF over = NoSection THEN base
    ELSE [f \in fields |->
            IF over[f] # "" THEN over[f]
            ELSE IF base = NoSection THEN "" ELSE base[f]]

\* A merge in which a set value of base is kept.
MergeConfig_BaseWins(base, over) ==
    [SMTPServer |-> IF base.SMTPServer # "" THEN base.SMTPServer ELSE over.SMTPServer,
     SMTPPort |-> IF base.SMTPPort # 0 THEN base.SMTPPort ELSE over.SMTPPort,
     LocalSendGridHost |->
        IF base.LocalSendGridHost # "" THEN base.LocalSendGridHost
        ELSE over.LocalSendGridHost,
     LocalSendgridPort |->
        IF base.LocalSendgridPort # 0 THEN base.LocalSendgridPort
        ELSE over.LocalSendgridPort,
     Templates |-> MergeSection(over.Templates, base.Templates, TemplateFields),
     Attachments |->
        IF base.Attachments # NoSection /\ base.Attachments.Dir # ""
        THEN [Dir |-> base.Attachments.Dir] ELSE over.Attachments,
     Auth |-> MergeSection(over.Auth, base.Auth, AuthFields),
     Storage |-> MergeSection(over.Storage, base.Storage, StorageFields)]

\* MergeConfig with both arguments non-nil, as the start-up code calls it.
MergeConfig(base, over) ==
    [SMTPServer |-> IF over.SMTPServer # "" THEN over.SMTPServer ELSE base.SMTPServer,
     SMTPPort |-> IF over.SMTPPort # 0 THEN over.SMTPPort ELSE base.SMTPPort,
     LocalSendGridHost |->
        IF over.LocalSendGridHost # "" THEN over.LocalSendGridHost
        ELSE base.LocalSendGridHost,
     LocalSendgridPort |->
        IF over.LocalSendgridPort # 0 THEN over.LocalSendgridPort
        ELSE base.LocalSendgridPort,
     Templates |-> MergeSection(base.Templates, over.Templates, TemplateFields),
     Attachments |->
        IF over.Attachments # NoSection /\ over.Attachments.Dir # ""
        THEN [Dir |-> over.Attachments.Dir] ELSE base.Attachments,
     Auth |-> MergeSection(base.Auth, over.Auth, AuthFields),
     Storage |-> MergeSection(base.Storage, over.Storage, StorageFields)]

\* Config.WithDefaults
WithDefaults(cfg) ==
    [cfg EXCEPT
        !.LocalSendGridHost = IF @ = "" THEN "0.0.0.0" ELSE @,
        !.LocalSendgridPort = IF @ = 0 THEN 5900 ELSE @,
        !.Attachments = IF @ # NoSection /\ @.Dir = "" THEN [Dir |-> "./attachments"] ELSE @,
        !.SMTPServer = IF @ = "" THEN "localhost" ELSE @,
        !.SMTPPort = IF @ = 0 THEN 587 ELSE @,
        !.Storage = IF @ = NoSection THEN [Type |-> "none", Path |-> ""] ELSE @]

ConfigSources == {"env", "file", "flag"}

\* The values each source gives when it sets a field.
SourceValues ==
    [env |-> [server |-> "prod.smtp.com", port |-> 25, key |-> "SG.env",
              user |-> "env-user", dir |-> "/env/att", storage |-> "sqlite"],
     file |-> [server |-> "localhost", port |-> 2525, key |-> "SG.file",
               user |-> "file-user", dir |-> "/file/att", storage |-> "filesystem"],
     flag |-> [server |-> "test.local", port |-> 1025, key |-> "SG.flag",
               user |-> "", dir |-> "/flag/att", storage |-> ""]]

\* What one source can hold: nothing, single fields, a section present with
\* nothing set in it, or everything it can set.
ConfigsOf(src) ==
    LET v == SourceValues[src]
        auth(key, user) == [SendgridKey |-> key, SMTPUser |-> user, SMTPPass |-> ""]
    IN  {EmptyConfig,
         [EmptyConfig EXCEPT !.SMTPServer = v.server],
         [EmptyConfig EXCEPT !.SMTPPort = v.port],
         [EmptyConfig EXCEPT !.Auth = auth(v.key, "")],
         [EmptyConfig EXCEPT !.Attachments = [Dir |-> v.dir]],
         [EmptyConfig EXCEPT !.SMTPServer = v.server, !.SMTPPort = v.port,
                             !.Auth = auth(v.key, v.user),
                             !.Attachments = [Dir |-> v.dir]]}
        \cup (IF src = "flag" THEN {}
              ELSE {[EmptyConfig EXCEPT !.Auth = auth("", v.user)],
                    [EmptyConfig EXCEPT !.Attachments = [Dir |-> ""]],
                    [EmptyConfig EXCEPT !.Storage = [Type |-> v.storage, Path |-> ""]]})

\* rootCmd.PersistentPreRunE: merge env <- file <- flag, then the defaults.
PreRun ==
    /\ Len(op) = 1
    /\ op[1].name = "sources"
    /\ LET merged == MergeConfig(MergeConfig(op[1].env, op[1].file), op[1].flag)
       IN  op' = Append(op, [name |-> "config", merged |-> merged,
                             final |-> WithDefaults(merged)])
    /\ UNCHANGED <<backend, files, rows, webhooks, callers, units, ntoggles, now, ncalls, okSaves, changes, lastSaved, closed>>

ConfigInit ==
    /\ backend = "noop"
    /\ files = EmptyMap
    /\ rows = EmptyMap
    /\ webhooks = EmptyMap
    /\ callers = [c \in Callers |-> IdleCaller(ErrNil, 0)]
    /\ units = <<>>
    /\ ntoggles = 0
    /\ now = 0
    /\ ncalls = 0
    /\ okSaves = 0
    /\ changes = 0
    /\ lastSaved = EmptyMap
    /\ \E e \in ConfigsOf("env"), f \in ConfigsOf("file"), g \in ConfigsOf("flag") :
          op = <<[name |-> "sources", env |-> e, file |-> f, flag |-> g]>>
    /\ closed = FALSE

ConfigNext == PreRun

ConfigSpec == ConfigInit /\ [][ConfigNext]_vars

(***************************************************************************)
(* One dispatch followed step by step: the dispatch call, the listing,     *)
(* the answer to every attempt and every sleep are written down in the     *)
(* order in which they happen.                                             *)
(***************************************************************************)
MaxDispatches == 1

\* The registries the dispatches run over: hookA switched on or off, hookB.
DeliveryHooks == {hookA, hookA2, hookB}

DeliveryRegistries(b) ==
    {Create(b, Create(b, EmptyMap, h1), h2) : h1 \in DeliveryHooks, h2 \in DeliveryHooks}

\* The events that are dispatched: one of each status.
DeliveryMessages == {msgM1, msgM2, msgM3}

\* DispatchMessageEvent: `go d.dispatchAsync(...)`.
DeliverDispatch(msg) ==
    /\ Len(units) < MaxDispatches
    /\ units' = DispatchMessageEvent(units, DispatchArgsOf(msg))
    /\ op' = Append(op, [name |-> "dispatch", u |-> Len(units) + 1,
                         status |-> msg.Status])
    /\ UNCHANGED <<closed, ntoggles, backend, files, rows, webhooks, callers, now, ncalls, okSaves, changes, lastSaved>>

\* Lines 98-117: the unit lists the enabled webhooks.
DeliverList(u) ==
    /\ u \in 1..Len(units)
    /\ units[u].pc = "list"
    /\ \E r \in ListEnabled(backend, webhooks) :
          /\ units' = [units EXCEPT ![u] = AfterList(@, r)]
          /\ op' = Append(op, [name |-> "list", u |-> u, hooks |-> r.hooks,
                               err |-> r.err])
    /\ UNCHANGED <<closed, ntoggles, backend, files, rows, webhooks, callers, now, ncalls, okSaves, changes, lastSaved>>

\* The HTTP client returns from the attempt in flight.
DeliverResponse(u) ==
    /\ u \in 1..Len(units)
    /\ units[u].pc = "await"
    /\ \E resp \in Responses :
          /\ units' = [units EXCEPT ![u] = AfterAttempt(@, resp)]
          /\ op' = Append(op, [name |-> "attempt", u |-> u,
                               hook |-> units[u].hooks[units[u].idx].ID,
                               resp |-> resp])
    /\ UNCHANGED <<closed, ntoggles, backend, files, rows, webhooks, callers, now, ncalls, okSaves, changes, lastSaved>>

\* Lines 140-143: time.Sleep(backoff).
DeliverSleep(u) ==
    /\ u \in 1..Len(units)
    /\ units[u].pc = "sleep"
    /\ now' = now + units[u].backoff
    /\ units' = [units EXCEPT ![u] = AfterSleep(@)]
    /\ op' = Append(op, [name |-> "sleep", u |-> u, d |-> units[u].backoff])
    /\ UNCHANGED <<closed, ntoggles, backend, files, rows, webhooks, callers, ncalls, okSaves, changes, lastSaved>>

DeliverStep(u) == DeliverList(u) \/ UnitSend(u) \/ DeliverResponse(u) \/ DeliverSleep(u)

DeliveryInit ==
    /\ backend \in Backends
    /\ files = EmptyMap
    /\ rows = EmptyMap
    /\ webhooks \in DeliveryRegistries(backend)
    /\ callers = [c \in Callers |-> IdleCaller(ErrNil, 0)]
    /\ units = <<>>
    /\ ntoggles = 0
    /\ now = 0
    /\ ncalls = 0
    /\ okSaves = 0
    /\ changes = 0
    /\ lastSaved = EmptyMap
    /\ op = NoOp
    /\ closed = FALSE

DeliveryNext ==
    \/ \E msg \in DeliveryMessages : DeliverDispatch(msg)
    \/ \E u \in 1..Len(units) : DeliverList(u)
    \/ \E u \in 1..Len(units) : UnitSend(u)
    \/ \E u \in 1..Len(units) : DeliverResponse(u)
    \/ \E u \in 1..Len(units) : DeliverSleep(u)

DeliverySpec == DeliveryInit /\ [][DeliveryNext]_vars

\* Every step of a unit is taken in the end: the scheduler runs the goroutine
\* and every HTTP attempt returns, with an answer, an error or the timeout.
DeliveryFairSpec ==
    DeliveryInit /\ [][DeliveryNext]_vars
    /\ \A u \in 1..MaxDispatches : WF_vars(DeliverStep(u))

(***************************************************************************)
(* The registry's HTTP handlers beside a dispatch.  net/http serves every  *)
(* request on a goroutine of its own, and the handlers take no lock: a     *)
(* toggle and a PUT are a Get followed by an Update, and the filesystem    *)
(* Update is os.WriteFile, which empties the file before it writes.        *)
(***************************************************************************)
MaxHandlerCalls == 2

\* The URL a PUT request sets.
PutURL == "http://other.example/hook"

\* Lines 215 and 150-158 of the handlers: what the handler changes in the
\* webhook it read.
HandlerChange(kind, hook) ==
    IF kind = "toggle" THEN [hook EXCEPT !.Enabled = ~hook.Enabled]
    ELSE [hook EXCEPT !.URL = PutURL]

\* A handler between its Get and its Update, or inside os.WriteFile.
Handling(pc, kind, hook) ==
    [pc |-> pc, kind |-> kind, hook |-> hook]

\* HandleToggleWebhook / HandleUpdateWebhook up to the Get: 404 when the Get
\* fails.
HandlerGet(c, id, kind) ==
    /\ callers[c].pc = "idle"
    /\ ntoggles < MaxHandlerCalls
    /\ ntoggles' = ntoggles + 1
    /\ LET r == GetWebhook(backend, webhooks, id, FALSE)
       IN  IF r.err # ErrNil
           THEN /\ op' = Append(op, [name |-> kind, u |-> 0, c |-> c, id |-> id,
                                     found |-> FALSE])
                /\ UNCHANGED callers
           ELSE /\ op' = Append(op, [name |-> kind, u |-> 0, c |-> c, id |-> id,
                                     found |-> TRUE])
                /\ callers' = [callers EXCEPT ![c] =
                                   Handling("got", kind, HandlerChange(kind, r.hook))]
    /\ UNCHANGED <<closed, backend, files, rows, webhooks, units, now, ncalls, okSaves, changes, lastSaved>>

\* The entry a handler writes down when store.Update has returned.
UpdatedEntry(c, err) ==
    [name |-> "updated", u |-> 0, c |-> c, kind |-> callers[c].kind,
     id |-> callers[c].hook.ID, enabled |-> callers[c].hook.Enabled, err |-> err]

\* store.Update: the sqlite UPDATE statement in one step; in the filesystem
\* backend the Stat and the open of os.WriteFile, which truncates the file.
HandlerUpdate(c) ==
    /\ callers[c].pc = "got"
    /\ LET hook == callers[c].hook
           err == UpdateWebhookErr(backend, webhooks, hook, FALSE)
       IN  IF backend = "filesystem" /\ err = ErrNil
           THEN /\ webhooks' = [webhooks EXCEPT ![webhookFile(hook.ID)] = EmptyFile]
                /\ callers' = [callers EXCEPT ![c].pc = "writing"]
                /\ UNCHANGED op
           ELSE /\ webhooks' = UpdateWebhook(backend, webhooks, hook, now)
                /\ callers' = [callers EXCEPT ![c] = IdleCaller(err, 0)]
                /\ op' = Append(op, UpdatedEntry(c, err))
    /\ UNCHANGED <<closed, ntoggles, backend, files, rows, units, now, ncalls, okSaves, changes, lastSaved>>

\* os.WriteFile writes the bytes and closes the file; a file that was removed
\* in between stays removed.
HandlerWrite(c) ==
    /\ callers[c].pc = "writing"
    /\ webhooks' = UpdateWebhook(backend, webhooks, callers[c].hook, now)
    /\ callers' = [callers EXCEPT ![c] = IdleCaller(ErrNil, 0)]
    /\ op' = Append(op, UpdatedEntry(c, ErrNil))
    /\ UNCHANGED <<closed, ntoggles, backend, files, rows, units, now, ncalls, okSaves, changes, lastSaved>>

\* HandleDeleteWebhook: one call of store.Delete.
HandlerDelete(id) ==
    /\ ntoggles < MaxHandlerCalls
    /\ ntoggles' = ntoggles + 1
    /\ webhooks' = DeleteWebhook(backend, webhooks, id)
    /\ op' = Append(op, [name |-> "delete", u |-> 0, id |-> id,
                         err |-> DeleteWebhookErr(backend, webhooks, id, FALSE)])
    /\ UNCHANGED <<closed, backend, files, rows, callers, units, now, ncalls, okSaves, changes, lastSaved>>

LifecycleInit ==
    /\ backend \in Backends
    /\ files = EmptyMap
    /\ rows = EmptyMap
    /\ webhooks \in InitialRegistries(backend)
    /\ callers = [c \in Callers |-> IdleCaller(ErrNil, 0)]
    /\ units = <<>>
    /\ ntoggles = 0
    /\ now = hookB.UpdatedAt + 1
    /\ ncalls = 0
    /\ okSaves = 0
    /\ changes = 0
    /\ lastSaved = EmptyMap
    /\ op = NoOp
    /\ closed = FALSE

LifecycleNext ==
    \/ \E c \in Callers, hook \in TestHooks : HandlerGet(c, hook.ID, "toggle")
    \/ \E c \in Callers, hook \in TestHooks : HandlerGet(c, hook.ID, "put")
    \/ \E c \in Callers : HandlerUpdate(c)
    \/ \E c \in Callers : HandlerWrite(c)
    \/ \E hook \in TestHooks : HandlerDelete(hook.ID)
    \/ \E msg \in DeliveryMessages : DeliverDispatch(msg)
    \/ \E u \in 1..Len(units) : DeliverList(u)
    \/ \E u \in 1..Len(units) : UnitSend(u)
    \/ \E u \in 1..Len(units) : UnitResponse(u)
    \/ \E u \in 1..Len(units) : UnitSleep(u)

LifecycleSpec == LifecycleInit /\ [][LifecycleNext]_vars

(***************************************************************************)
(* The webhook service's create and delete handlers, one request after     *)
(* another, with the status each one answers.                              *)
(***************************************************************************)
MaxServiceOps == 3

StatusCreated == 201
StatusNoContent == 204
StatusNotFound == 404

\* webhook.ErrNotFound, the service's own sentinel.
ErrWebhookNotFound == <<"webhook not found">>

\* fmt.Sprintf("wh_%d", int64(len([]byte{}))): the length of an empty slice.
generateID == <<"w", "h", "_", "0">>

\* The request bodies of POST /webhooks.
CreateRequests ==
    [URL : {"", "http://a.example/hook", "http://b.example/hook"},
     Events : {<<>>, <<"bounce">>}, Secret : {""}]

\* The config HandleCreateWebhook hands to store.Create.
NewConfig(req) ==
    [ID |-> generateID, URL |-> req.URL, Enabled |-> TRUE, Events |-> req.Events,
     Secret |-> req.Secret, CreatedAt |-> 0, UpdatedAt |-> 0]

\* The status HandleCreateWebhook answers.
CreateStatus(b, reg, req, ioFails) ==
    IF req.URL = "" THEN StatusBadRequest
    ELSE IF Len(req.Events) = 0 THEN StatusBadRequest
    ELSE IF CreateErr(b, reg, NewConfig(req), ioFails) # ErrNil
    THEN StatusInternalServerError
    ELSE StatusCreated

\* The status HandleDeleteWebhook answers: 404 only for an error that is the
\* service's ErrNotFound.
DeleteStatus(b, reg, id, ioFails) ==
    LET err == DeleteWebhookErr(b, reg, id, ioFails)
    IN  IF id = <<>> THEN StatusBadRequest
        ELSE IF err # ErrNil
        THEN IF ErrorsIs(err, ErrWebhookNotFound) THEN StatusNotFound
             ELSE StatusInternalServerError
        ELSE StatusNoContent

\* HandleCreateWebhook.  The filesystem Create stamps a config without
\* timestamps with the clock.
HandleCreateWebhook(req) ==
    /\ Len(op) < MaxServiceOps
    /\ \E ioFails \in IOOutcomes(backend, closed) :
          LET status == CreateStatus(backend, webhooks, req, ioFails)
              config == IF backend = "filesystem"
                        THEN [NewConfig(req) EXCEPT !.CreatedAt = now, !.UpdatedAt = now]
                        ELSE NewConfig(req)
              after == IF status = StatusCreated THEN Create(backend, webhooks, config)
                       ELSE webhooks
          IN  /\ webhooks' = after
              /\ op' = Append(op, [name |-> "create", id |-> generateID, req |-> req,
                                   io |-> ioFails, status |-> status,
                                   before |-> webhooks, after |-> after])
    /\ now' = now + 1
    /\ UNCHANGED <<backend, files, rows, callers, units, ntoggles, ncalls, okSaves, changes, lastSaved, closed>>

\* HandleDeleteWebhook.
HandleDeleteWebhook(id) ==
    /\ Len(op) < MaxServiceOps
    /\ \E ioFails \in IOOutcomes(backend, closed) :
          LET status == DeleteStatus(backend, webhooks, id, ioFails)
              after == IF status = StatusNoContent
                       THEN DeleteWebhook(backend, webhooks, id)
                       ELSE webhooks
          IN  /\ webhooks' = after
              /\ op' = Append(op, [name |-> "delete", id |-> id, req |-> <<>>,
                                   io |-> ioFails, status |-> status,
                                   before |-> webhooks, after |-> after])
    /\ now' = now + 1
    /\ UNCHANGED <<backend, files, rows, callers, units, ntoggles, ncalls, okSaves, changes, lastSaved, closed>>

\* The ids DELETE requests name: the generated one, hookA's, none.
DeleteIDs == {generateID, hookA.ID, <<>>}

ServiceInit ==
    /\ backend \in Backends
    /\ files = EmptyMap
    /\ rows = EmptyMap
    /\ webhooks \in {EmptyMap, Create(backend, EmptyMap, hookA)}
    /\ callers = [c \in Callers |-> IdleCaller(ErrNil, 0)]
    /\ units = <<>>
    /\ ntoggles = 0
    /\ now = hookB.UpdatedAt + 1
    /\ ncalls = 0
    /\ okSaves = 0
    /\ changes = 0
    /\ lastSaved = EmptyMap
    /\ op = NoOp
    /\ closed = FALSE

ServiceNext ==
    \/ \E req \in CreateRequests : HandleCreateWebhook(req)
    \/ \E id \in DeleteIDs : HandleDeleteWebhook(id)

ServiceSpec == ServiceInit /\ [][ServiceNext]_vars

(***************************************************************************)
(* Paging through a list: list queries with a limit and an offset, one     *)
(* after another over an unchanged store.  Messages saved within one       *)
(* second carry the same timestamp.                                        *)
(***************************************************************************)
MaxPageOps == 2
MaxPageSize == 5

\* The k-th stored message; two messages in a row share a second.
PageMsg(k) == [PopMsg(k) EXCEPT !.Timestamp = 10 + (k \div 2)]

\* The files and the rows after SaveMSG(PageMsg(k)) for every k of ks.
PageFiles(ks) ==
    [name \in {filename(PopID(k)) : k \in ks} |->
        MarshalMessage(PageMsg(CHOOSE k \in ks : filename(PopID(k)) = name))]

PageRows(ks) ==
    [id \in {PopID(k) : k \in ks} |-> PageMsg(CHOOSE k \in ks : PopID(k) = id)]

PageQueries ==
    {GetQuery(idEmpty, st, lim, off) :
        st \in {"", StatusProcessed}, lim \in {1, 2}, off \in {0, 1, 2, 5}}

PageGet(query) ==
    /\ Len(op) < MaxPageOps
    /\ StoreGet(query)

PageInit ==
    /\ backend \in {"filesystem", "sqlite"}
    /\ \E ks \in SUBSET (1..MaxPageSize) :
          /\ files = IF backend = "filesystem" THEN PageFiles(ks) ELSE EmptyMap
          /\ rows = IF backend = "sqlite" THEN PageRows(ks) ELSE EmptyMap
          /\ lastSaved = PageRows(ks)
    /\ webhooks = EmptyMap
    /\ callers = [c \in Callers |-> IdleCaller(ErrNil, 0)]
    /\ units = <<>>
    /\ ntoggles = 0
    /\ now = 0
    /\ ncalls = 0
    /\ okSaves = 0
    /\ changes = 0
    /\ op = NoOp
    /\ closed = FALSE

PageNext == \E query \in PageQueries : PageGet(query)

PageSpec == PageInit /\ [][PageNext]_vars

(***************************************************************************)
(* A dispatch beside registry changes that each take effect at once: a     *)
(* toggle, a PUT that moves the endpoint and rotates the secret, a delete  *)
(* and a create.                                                           *)
(***************************************************************************)
MaxSnapshotChanges == 1

MovedURL == "http://moved.example/hook"
RotatedSecret == "rotated"

\* HandleToggleWebhook, lines 209-216: Get, flip Enabled, Update.
SnapshotToggle(id) ==
    /\ ntoggles < MaxSnapshotChanges
    /\ webhookKey(backend, id) \in DOMAIN webhooks
    /\ ntoggles' = ntoggles + 1
    /\ LET hook == webhooks[webhookKey(backend, id)]
       IN  webhooks' = UpdateWebhook(backend, webhooks,
                                     [hook EXCEPT !.Enabled = ~hook.Enabled], now)
    /\ UNCHANGED <<op, closed, backend, files, rows, callers, units, now, ncalls, okSaves, changes, lastSaved>>

\* HandleUpdateWebhook, lines 143-160: Get, set the URL and the secret of the
\* request, Update.
SnapshotPut(id) ==
    /\ ntoggles < MaxSnapshotChanges
    /\ webhookKey(backend, id) \in DOMAIN webhooks
    /\ ntoggles' = ntoggles + 1
    /\ LET hook == webhooks[webhookKey(backend, id)]
       IN  webhooks' = UpdateWebhook(backend, webhooks,
                                     [hook EXCEPT !.URL = MovedURL,
                                                  !.Secret = RotatedSecret], now)
    /\ UNCHANGED <<op, closed, backend, files, rows, callers, units, now, ncalls, okSaves, changes, lastSaved>>

\* HandleDeleteWebhook, line 183, for a registered webhook.
SnapshotDelete(id) ==
    /\ ntoggles < MaxSnapshotChanges
    /\ webhookKey(backend, id) \in DOMAIN webhooks
    /\ ntoggles' = ntoggles + 1
    /\ webhooks' = DeleteWebhook(backend, webhooks, id)
    /\ UNCHANGED <<op, closed, backend, files, rows, callers, units, now, ncalls, okSaves, changes, lastSaved>>

\* WebhookStore.Create of a webhook that is not registered yet.
SnapshotCreate(hook) ==
    /\ ntoggles < MaxSnapshotChanges
    /\ backend # "noop"
    /\ CreateErr(backend, webhooks, hook, FALSE) = ErrNil
    /\ ntoggles' = ntoggles + 1
    /\ webhooks' = Create(backend, webhooks, hook)
    /\ UNCHANGED <<op, closed, backend, files, rows, callers, units, now, ncalls, okSaves, changes, lastSaved>>

SnapshotNext ==
    \/ \E msg \in DeliveryMessages : DeliverDispatch(msg)
    \/ \E u \in 1..Len(units) : DeliverList(u)
    \/ \E u \in 1..Len(units) : UnitSend(u)
    \/ \E u \in 1..Len(units) : DeliverResponse(u)
    \/ \E u \in 1..Len(units) : DeliverSleep(u)
    \/ \E hook \in DeliveryHooks : SnapshotToggle(hook.ID)
    \/ \E hook \in DeliveryHooks : SnapshotPut(hook.ID)
    \/ \E hook \in DeliveryHooks : SnapshotDelete(hook.ID)
    \/ \E hook \in DeliveryHooks : SnapshotCreate(hook)

SnapshotSpec == DeliveryInit /\ [][SnapshotNext]_vars

(***************************************************************************)
(* Two dispatches at a time: every DispatchMessageEvent starts a goroutine *)
(* of its own, and the goroutines share nothing but the registry they read.*)
(***************************************************************************)
MaxOrderUnits == 2

\* DispatchMessageEvent: `go d.dispatchAsync(...)`.
OrderDispatch(msg) ==
    /\ Len(units) < MaxOrderUnits
    /\ units' = DispatchMessageEvent(units, DispatchArgsOf(msg))
    /\ UNCHANGED <<op, closed, ntoggles, backend, files, rows, webhooks, callers, now, ncalls, okSaves, changes, lastSaved>>

OrderStep(u) == DeliverList(u) \/ UnitSend(u) \/ UnitResponse(u) \/ UnitSleep(u)

OrderNext ==
    \/ \E msg \in DeliveryMessages : OrderDispatch(msg)
    \/ \E u \in 1..Len(units) : DeliverList(u)
    \/ \E u \in 1..Len(units) : UnitSend(u)
    \/ \E u \in 1..Len(units) : UnitResponse(u)
    \/ \E u \in 1..Len(units) : UnitSleep(u)

OrderSpec == DeliveryInit /\ [][OrderNext]_vars

(***************************************************************************)
(* filesystem Store.Create called from two goroutines.  Create takes no    *)
(* lock: os.Stat and os.WriteFile are two system calls, and another        *)
(* goroutine can run between them.                                         *)
(***************************************************************************)
Creator(hook) == [pc |-> "call", hook |-> hook, result |-> ErrNil]

\* Lines 200-209: the id test and os.Stat; a file that is there ends the call.
CreateStat(c) ==
    /\ callers[c].pc = "call"
    /\ LET hook == callers[c].hook
       IN  callers' = [callers EXCEPT ![c] =
               IF hook.ID = <<>>
               THEN [@ EXCEPT !.pc = "done", !.result = ErrWebhookIDRequired]
               ELSE IF webhookFile(hook.ID) \in DOMAIN webhooks
               THEN [@ EXCEPT !.pc = "done", !.result = ErrWebhookExists]
               ELSE [@ EXCEPT !.pc = "write"]]
    /\ UNCHANGED <<op, closed, ntoggles, backend, files, rows, webhooks, units, now, ncalls, okSaves, changes, lastSaved>>

\* Lines 210-224: os.WriteFile creates the file or replaces its content, or
\* fails and leaves the directory as it was.
\* op keeps the order in which the calls came to their write.
CreateWrite(c) ==
    /\ callers[c].pc = "write"
    /\ \E ioFails \in BOOLEAN :
          LET hook == callers[c].hook
              key == webhookFile(hook.ID)
          IN  IF ioFails
              THEN /\ webhooks' = webhooks
                   /\ callers' = [callers EXCEPT
                          ![c] = [@ EXCEPT !.pc = "done",
                                           !.result = Wrap("write webhook file", ErrIO)]]
              ELSE /\ webhooks' = [k \in DOMAIN webhooks \cup {key} |->
                                      IF k = key THEN hook ELSE webhooks[k]]
                   /\ callers' = [callers EXCEPT ![c] = [@ EXCEPT !.pc = "done"]]
    /\ op' = Append(op, c)
    /\ UNCHANGED <<closed, ntoggles, backend, files, rows, units, now, ncalls, okSaves, changes, lastSaved>>

RaceInit ==
    /\ backend = "filesystem"
    /\ files = EmptyMap
    /\ rows = EmptyMap
    /\ webhooks \in {EmptyMap} \cup {Create(backend, EmptyMap, h) : h \in RegistryHooks}
    /\ callers \in [Callers -> {Creator(h) : h \in RegistryHooks}]
    /\ units = <<>>
    /\ ntoggles = 0
    /\ now = 0
    /\ ncalls = 0
    /\ okSaves = 0
    /\ changes = 0
    /\ lastSaved = EmptyMap
    /\ op = NoOp
    /\ closed = FALSE

RaceNext ==
    \/ \E c \in Callers : CreateStat(c)
    \/ \E c \in Callers : CreateWrite(c)

RaceSpec == RaceInit /\ [][RaceNext]_vars

(***************************************************************************)
(* Properties.                                                             *)
(***************************************************************************)
\* The step in which caller c leaves the wrapped store's save.
SaveStep(c) == callers[c].pc = "save" /\ callers'[c].pc # "save"

\* C1: over a store that retains records, with SaveMSG calls made one after
\* another, a successful save of an id without stored record triggers exactly
\* one dispatch, a save with the stored status triggers none, and a save with
\* another status triggers exactly one; the dispatch carries the new message's
\* id, recipient, sender, subject, status and reason.
C1_StatusTransitionDispatch ==
    [][\A c \in Callers :
          (SaveStep(c) /\ okSaves' = okSaves + 1 /\ backend # "noop") =>
              LET msg == callers[c].msg
                  prior == Stored(backend, files, rows, msg.MsgID)
              IN  IF Len(prior) = 0 \/ prior[1].Status # msg.Status
                  THEN /\ Len(units') = Len(units) + 1
                       /\ SubSeq(units', 1, Len(units)) = units
                       /\ units'[Len(units')].args =
                             [msgID |-> msg.MsgID, email |-> msg.ToEmail,
                              from |-> msg.FromEmail, subject |-> msg.Subject,
                              status |-> msg.Status, reason |-> msg.Reason]
                  ELSE units' = units]_vars

\* C1 witness: three successful saves of id "m" in a row produced two
\* dispatches, one for the new record and one for a changed status; the
\* remaining save carried the stored status and dispatched nothing.
C1_Witness ==
    /\ backend = "sqlite"
    /\ okSaves = 3
    /\ DOMAIN lastSaved = {idM}
    /\ Len(units) = 2
    /\ units[1].args.status # units[2].args.status

\* C2: the number of dispatches never exceeds the number of status changes of
\* the stored records (a new id counting as one change), whatever the
\* interleaving of concurrent SaveMSG calls.
C2_AtMostOncePerStatusChange == backend # "noop" => Len(units) <= changes

\* C3: when the wrapped store's save fails, SaveMSG returns that error, stores
\* nothing and triggers no dispatch, whatever record was read before.
C3_FailedSaveNoDispatch ==
    [][\A c \in Callers :
          (SaveStep(c) /\ okSaves' = okSaves) =>
              /\ units' = units
              /\ callers'[c].pc = "idle"
              /\ callers'[c].result # ErrNil
              /\ \E ioFails \in BOOLEAN :
                    callers'[c].result =
                        SaveMSG(backend, files, rows, callers[c].msg, ioFails).err
              /\ files' = files /\ rows' = rows]_vars

\* C3 witness: a save failed on a backend I/O error although a record with a
\* different status was read before it, and the only dispatch is the one of
\* the earlier, successful save.
C3_Witness ==
    \E c \in Callers :
        /\ callers[c].pc = "idle"
        /\ callers[c].result = Wrap("insert message", ErrIO)
        /\ okSaves = 1
        /\ ncalls = 2
        /\ Len(units) = 1

\* Hook number i of unit u's list is behind the range loop.
HookFinished(u, i) == units[u].pc = "done" \/ units[u].idx > i

\* The event type of unit u occurs, letter for letter, in the events of hook i.
ListsStatus(u, i) ==
    \E k \in 1..Len(units[u].hooks[i].Events) :
        units[u].hooks[i].Events[k] = units[u].args.status

\* C4: the dispatch is fire-and-forget: a caller that has called
\* DispatchMessageEvent can return whatever the unit has or has not done, and
\* the result of a SaveMSG that dispatched is nil for every state of its unit.
C4_FireAndForget ==
    \A c \in Callers :
        /\ callers[c].pc = "dispatched" => ENABLED WrapperReturn(c)
        /\ (callers[c].pc = "idle" /\ callers[c].unit # 0) => callers[c].result = ErrNil

\* C4 witness: SaveMSG has returned nil while its dispatch unit has not even
\* listed the webhooks.
C4_Witness ==
    \E c \in Callers :
        /\ callers[c].pc = "idle"
        /\ callers[c].unit # 0
        /\ callers[c].result = ErrNil
        /\ units[callers[c].unit].pc = "list"

\* C5: a subscribed webhook none of whose attempts succeeded is attempted
\* exactly 3 times once the unit is done with it, no webhook is ever attempted
\* a fourth time, and the save that triggered the dispatch returned nil.
C5_RetryExhaustion ==
    /\ \A u \in 1..Len(units) : \A i \in 1..Len(units[u].hooks) :
          /\ units[u].tries[i] <= 3
          /\ (HookFinished(u, i) /\ ListsStatus(u, i) /\ ~units[u].ok[i]) =>
                (units[u].tries[i] = 3 /\ units[u].fails[i] = 3)
    /\ \A c \in Callers :
          (callers[c].pc = "idle" /\ callers[c].unit # 0) => callers[c].result = ErrNil

\* C5 witness: a unit is done, one of its webhooks failed three times, and the
\* SaveMSG that dispatched it has returned nil.
C5_Witness ==
    \E c \in Callers :
        /\ callers[c].pc = "idle"
        /\ callers[c].unit # 0
        /\ callers[c].result = ErrNil
        /\ units[callers[c].unit].pc = "done"
        /\ \E i \in 1..Len(units[callers[c].unit].hooks) :
              units[callers[c].unit].fails[i] = 3

\* C6: a webhook is attempted only if its events list contains the event's
\* status letter for letter; a webhook subscribed only to "bounce" gets no
\* call for a "delivered" event and, when no answer of its endpoint is a
\* failure, exactly one call for a "bounce" event.
C6_SubscriptionFilter ==
    \A u \in 1..Len(units) : \A i \in 1..Len(units[u].hooks) :
        /\ units[u].tries[i] > 0 => ListsStatus(u, i)
        /\ units[u].hooks[i].Events = <<"bounce">> =>
              /\ units[u].args.status = "delivered" => units[u].tries[i] = 0
              /\ (units[u].args.status = "bounce" /\ HookFinished(u, i)
                    /\ units[u].fails[i] = 0) => units[u].tries[i] = 1

\* C6 witness: a "delivered" event went through both webhooks; the one
\* subscribed only to "bounce" was skipped and the other one was called.
C6_Witness ==
    \E u \in 1..Len(units) :
        /\ units[u].pc = "done"
        /\ units[u].args.status = "delivered"
        /\ Len(units[u].hooks) = 2
        /\ \E i, j \in 1..2 :
              /\ units[u].hooks[i].Events = <<"bounce">>
              /\ units[u].tries[i] = 0
              /\ units[u].tries[j] >= 1

\* C7: a request in flight carries the signature header exactly when the
\* webhook's secret is not empty, and the header is the hex HMAC-SHA256, under
\* that secret, of the body of that same request.
C7_SignedPayload ==
    \A u \in 1..Len(units) :
        units[u].pc = "await" =>
            LET hook == units[u].hooks[units[u].idx]
                req == units[u].req
            IN  /\ (SignatureHeader \in DOMAIN req.Headers) <=> (hook.Secret # "")
                /\ SignatureHeader \in DOMAIN req.Headers =>
                      req.Headers[SignatureHeader] = HmacSha256Hex(hook.Secret, req.Body)

\* C7 witness: a retry to a webhook with a secret is in flight, its body
\* rebuilt with a later timestamp than the first attempt's.
C7_Witness ==
    \E u \in 1..Len(units) :
        /\ units[u].pc = "await"
        /\ units[u].attempt >= 1
        /\ units[u].hooks[units[u].idx].Secret # ""
        /\ units[u].req.Body.timestamp > 0
        /\ SignatureHeader \in DOMAIN units[u].req.Headers

\* C9: no step of a dispatch unit changes the stored messages, and the stored
\* messages change only in the save step of a SaveMSG call.
C9_DispatchLeavesStoreAlone ==
    [][/\ \A u \in 1..Len(units) :
             units'[u] # units[u] => (files' = files /\ rows' = rows)
       /\ (files' # files \/ rows' # rows) => \E c \in Callers : SaveStep(c)]_vars

\* C9 witness: a unit has ended after a webhook exhausted its retries while a
\* message is stored.
C9_Witness ==
    \E u \in 1..Len(units) :
        /\ units[u].pc = "done"
        /\ \E i \in 1..Len(units[u].hooks) : units[u].fails[i] = 3
        /\ (DOMAIN files # {} \/ DOMAIN rows # {})

\* C8: once a unit has listed the webhooks, every webhook of its list that is
\* subscribed to the event's status is eventually attempted, whatever the
\* attempts to the other webhooks end in.
C8_IndependentDelivery ==
    \A u \in 1..MaxFairCalls : \A i \in 1..Cardinality(TestHooks) :
        (/\ u <= Len(units)
         /\ i <= Len(units[u].hooks)
         /\ ListsStatus(u, i))
            ~> (/\ u <= Len(units)
                /\ i <= Len(units[u].tries)
                /\ units[u].tries[i] >= 1)

\* C8 witness: the first webhook of a unit's list exhausted its three
\* attempts and the second one has been attempted.
C8_Witness ==
    \E u \in 1..Len(units) :
        /\ Len(units[u].hooks) = 2
        /\ units[u].fails[1] = 3
        /\ units[u].tries[2] >= 1

\* Ids whose file name no other saved id shares.
OwnFile(id) ==
    \A other \in DOMAIN lastSaved : filename(other) = filename(id) => other = id

\* C10: in the filesystem and sqlite backends, get({id}) for a saved id
\* returns exactly one record, equal in every field to the most recent
\* successful save with that id (stated here for the ids that share their
\* file name with no other saved id).
C10_SaveFullyOverwrites ==
    backend # "noop" =>
        \A id \in DOMAIN lastSaved :
            OwnFile(id) => Stored(backend, files, rows, id) = <<lastSaved[id]>>

\* Fields that a delivery event changes on a message.
EventFieldsOfMessage == {"Status", "SMTPResponse", "LastEventTime"}

\* b is the message a after a delivery event.
SameMessage(a, b) ==
    \A f \in MessageFields \ EventFieldsOfMessage : a[f] = b[f]

\* Calls i, i+1, i+2 are two successful saves of one id, the second being the
\* first message with status delivered instead of processed or the very same
\* message, followed by a get of that id that did not fail on I/O.
UpsertThenGet(i) ==
    /\ op[i].name = "save" /\ op[i + 1].name = "save" /\ op[i + 2].name = "get"
    /\ op[i].err = ErrNil /\ op[i + 1].err = ErrNil
    /\ op[i].msg.MsgID = op[i + 1].msg.MsgID
    /\ op[i + 2].query.ID = op[i + 1].msg.MsgID
    /\ \/ op[i].msg = op[i + 1].msg
       \/ /\ op[i].msg.Status = StatusProcessed
          /\ op[i + 1].msg.Status = StatusDelivered
          /\ SameMessage(op[i].msg, op[i + 1].msg)
    /\ ~IsIOError(op[i + 2].err)

\* C11: on all three backends save(A, processed), save(A, delivered), get({id: A})
\* yields the single record of the second save, and so does saving the same
\* message twice.
C11_CrossBackendUpsert ==
    \A i \in 1..(Len(op) - 2) :
        UpsertThenGet(i) =>
            (op[i + 2].err = ErrNil /\ op[i + 2].msgs = <<op[i + 1].msg>>)

\* Call i is a get by an id that no earlier save stored, answered without an
\* I/O failure.
GetOfNeverSaved(i) ==
    /\ op[i].name = "get"
    /\ op[i].query.ID # idEmpty
    /\ ~IsIOError(op[i].err)
    /\ \A j \in 1..(i - 1) :
          op[j].name = "save" =>
              (op[j].err # ErrNil \/ filename(op[j].msg.MsgID) # filename(op[i].query.ID))

\* C12: get({id}) of a never-saved id has the same outcome on every backend:
\* the outcome observed is the one each of the three backends gives for an id
\* it does not hold.
C12_UniformNotFound ==
    \A i \in 1..Len(op) :
        GetOfNeverSaved(i) =>
            \A b \in Backends :
                GetResult(op[i].msgs, op[i].err)
                    \in GetMSG(b, EmptyMap, EmptyMap, op[i].query)

\* C13: on every backend a save of a message with an empty id returns an
\* error and leaves the stored records as they were.
C13_EmptyIDRejected ==
    [][(/\ Len(op') = Len(op) + 1
        /\ op'[Len(op')].name = "save"
        /\ op'[Len(op')].msg.MsgID = idEmpty)
          => (/\ op'[Len(op')].err # ErrNil
              /\ files' = files
              /\ rows' = rows)]_vars

\* C15: Close is idempotent: on every backend, which serves as Message Store
\* and as Webhook Registry, and through the StoreWrapper, a Close that follows
\* an earlier Close returns no error.
C15_CloseIdempotent ==
    \A i \in 1..Len(op) :
        (op[i].name = "close" /\ \E j \in 1..(i - 1) : op[j].name = "close")
            => op[i].err = ErrNil

\* C15 witness: the sqlite store was closed twice after a save.
C15_Witness ==
    /\ backend = "sqlite"
    /\ Len(op) = 3
    /\ op[1].name = "save" /\ op[1].err = ErrNil
    /\ op[2].name = "close"
    /\ op[3].name = "close"

\* The messages a persisting backend holds.
StoredRecords(b, fs, tbl) ==
    IF b = "filesystem" THEN {UnmarshalMessage(fs[n]) : n \in DOMAIN fs}
    ELSE IF b = "sqlite" THEN {tbl[k] : k \in DOMAIN tbl}
    ELSE {}

\* The most recent call is a list query that did not fail on I/O.
LastIsList ==
    /\ Len(op) > 0
    /\ op[Len(op)].name = "get"
    /\ op[Len(op)].query.ID = idEmpty
    /\ ~IsIOError(op[Len(op)].err)

Matches(text, subs) == \E sub \in subs : Contains(text, sub)

PermanentCodes == {<<"5", "5", "0">>, <<"5", "5", "1">>, <<"5", "5", "2">>, <<"5", "5", "3">>, <<"5", "5", "4">>}
TemporaryCodes == {<<"4", "2", "1">>, <<"4", "5", "0">>, <<"4", "5", "1">>, <<"4", "5", "2">>}
ConnectivityWords == {<<"c", "o", "n", "n", "e", "c", "t", "i", "o", "n">>, <<"t", "i", "m", "e", "o", "u", "t">>, <<"d", "i", "a", "l">>}

\* The classification the ordered policy prescribes for a failure text.
PolicyStatus(text) ==
    IF Matches(text, PermanentCodes) THEN StatusBounce
    ELSE IF Matches(text, TemporaryCodes) THEN StatusBlocked
    ELSE IF Matches(text, ConnectivityWords) THEN StatusDeferred
    ELSE StatusBounce

\* C16: classifyDeliveryResult follows the ordered policy, first match wins:
\* no error gives delivered with empty detail; a text with a permanent code
\* gives bounce, otherwise with a temporary code blocked, otherwise with a
\* connectivity keyword deferred, otherwise bounce, the detail being the text;
\* and the four examples of the contract classify as stated.
C16_ClassifierPolicy ==
    /\ \A i \in 1..Len(op) :
          op[i].name = "classify" =>
              IF op[i].err.isNil
              THEN op[i].result = [status |-> StatusDelivered, reason |-> <<>>]
              ELSE op[i].result = [status |-> PolicyStatus(op[i].err.text),
                                   reason |-> op[i].err.text]
    /\ \A i \in 1..Len(op) :
          (op[i].name = "classify" /\ ~op[i].err.isNil) =>
              /\ op[i].err.text = text550 => op[i].result.status = StatusBounce
              /\ op[i].err.text = text421 => op[i].result.status = StatusBlocked
              /\ op[i].err.text = textDial => op[i].result.status = StatusDeferred
              /\ op[i].err.text = textGremlin => op[i].result.status = StatusBounce
    /\ \A i, j \in 1..Len(op) :
          (op[i].name = "classify" /\ op[j].name = "classify" /\ op[i].err = op[j].err)
              => op[i].result = op[j].result

\* C16 witness: a text holding both a temporary and, formed across two
\* fragments, a permanent code was classified bounce.
C16_Witness ==
    /\ Len(op) = 3
    /\ op[3].name = "classify"
    /\ op[2].name = "classify"
    /\ op[2].err.text = <<"4", "2", "1">> \o <<"5">> \o <<"5", "0">>
    /\ op[2].result.status = StatusBounce

\* A webhook with this id is in the registry.
Present(reg, id) == \E k \in DOMAIN reg : reg[k].ID = id

C18_AbsentIDNotFound ==
    \A i \in 1..Len(op) :
        (/\ op[i].name \in {"get", "update", "delete"}
         /\ ~op[i].io
         /\ ~Present(op[i].before, op[i].id)) =>
            /\ ErrorsIs(op[i].err, ErrNotFound)
            /\ op[i].after = op[i].before

\* C19: when a save of a message record returns an error during sendMail,
\* the result of sendMail is an error result, not the accepted one.
C19_SaveFailureSurfaces ==
    \A i \in 1..Len(op) :
        (/\ op[i].name = "sendMail"
         /\ \E j \in 1..Len(op[i].saveErrs) : op[i].saveErrs[j] # ErrNil)
            => op[i].code # StatusAccepted

\* The path names a file directly in the directory: the elements of the
\* directory followed by one name that is neither "." nor "..".
DirectlyUnder(path, dir) ==
    /\ path.rooted = dir.rooted
    /\ Len(path.elems) = Len(dir.elems) + 1
    /\ SubSeq(path.elems, 1, Len(dir.elems)) = dir.elems
    /\ path.elems[Len(path.elems)] \notin {<<>>, <<".">>, <<".", ".">>}
    /\ \A j \in 1..Len(path.elems[Len(path.elems)]) :
          path.elems[Len(path.elems)][j] # "/"

\* C20: in the filesystem backend the file of every non-empty message id lies
\* directly under the store directory, and the file of every webhook id
\* directly under its webhooks subdirectory, whatever separators and dots
\* the id holds.
C20_FilesStayUnderRoot ==
    \A i \in 1..Len(op) :
        /\ (op[i].name = "filename" /\ op[i].id # <<>>) =>
              DirectlyUnder(op[i].path, Clean(op[i].dir))
        /\ (op[i].name = "webhookFile"
             \/ (op[i].name = "getWebhook" /\ op[i].path # NoPath)) =>
              DirectlyUnder(op[i].path, Clean(op[i].dir \o <<"/", "webhooks">>))

\* C20 witness: the file of the message id "../a" is a.json in the store
\* directory.
C20_Witness ==
    /\ Len(op) = 2
    /\ op[2].name = "filename"
    /\ op[2].dir = <<"/", "data">>
    /\ op[2].id = <<".", ".", "/", "a">>
    /\ op[2].path = [rooted |-> TRUE, elems |-> <<<<"data">>, <<"a", ".json">>>>]

\* C21: a get by id returns at most one record, and a returned record has the
\* id asked for: no save of another id has taken its place.
C21_GetByIDReturnsThatID ==
    \A i \in 1..Len(op) :
        (op[i].name = "get" /\ op[i].query.ID # idEmpty /\ op[i].err = ErrNil) =>
            /\ Len(op[i].msgs) <= 1
            /\ \A j \in 1..Len(op[i].msgs) : op[i].msgs[j].MsgID = op[i].query.ID

\* C22: once two concurrent saves of one id have both returned, get({id})
\* returns exactly one record, equal in full to one of the two messages.
C22_ConcurrentSavesLastWriteWins ==
    \A i \in 1..Len(op) :
        (op[i].name = "get" /\ \A c \in Callers : callers[c].pc = "returned") =>
            /\ op[i].err = ErrNil
            /\ Len(op[i].msgs) = 1
            /\ \E c \in Callers : op[i].msgs[1] = callers[c].msg

\* The first middleware of the list that does not call next, or one past the
\* end when all do.
FirstAbort(list) ==
    IF \E i \in 1..Len(list) : ~list[i].callsNext
    THEN CHOOSE i \in 1..Len(list) :
            ~list[i].callsNext /\ \A j \in 1..(i - 1) : list[j].callsNext
    ELSE Len(list) + 1

\* C23: serving Chain(m1, ..., mn)(handler) runs the pre-handler parts in the
\* order m1..mn, then the handler, then the post-handler parts in the order
\* mn..m1; with no middleware the handler alone runs; and when mk is the first
\* that does not call next, neither the handler nor any part of a later
\* middleware runs, the parts before mk unwinding in reverse order.
C23_ChainOrder ==
    (Len(op) = 3 /\ op[3].name = "serve") =>
        LET list == op[1].list
            n == Len(list)
            k == FirstAbort(list)
            order == op[3].order
        IN  IF k > n
            THEN /\ Len(order) = 2 * n + 1
                 /\ \A i \in 1..n : order[i] = <<list[i].name, "before">>
                 /\ order[n + 1] = <<"handler", "run">>
                 /\ \A i \in 1..n : order[n + 1 + i] = <<list[n + 1 - i].name, "after">>
            ELSE /\ Len(order) = 2 * k - 1
                 /\ \A i \in 1..(k - 1) : order[i] = <<list[i].name, "before">>
                 /\ order[k] = <<list[k].name, "abort">>
                 /\ \A i \in 1..(k - 1) : order[k + i] = <<list[k - i].name, "after">>

\* C23 witness: Chain(A, B, C) served in the order of the test.
C23_Witness ==
    /\ Len(op) = 3
    /\ op[3].name = "serve"
    /\ op[3].order = <<<<"A", "before">>, <<"B", "before">>, <<"C", "before">>,
                       <<"handler", "run">>,
                       <<"C", "after">>, <<"B", "after">>, <<"A", "after">>>>

SectionField(cfg, section, f) ==
    IF cfg[section] = NoSection THEN "" ELSE cfg[section][f]

\* The value that wins: the flag's if set, else the file's, else the
\* environment's.
Precedence(fromEnv, fromFile, fromFlag, unset) ==
    IF fromFlag # unset THEN fromFlag
    ELSE IF fromFile # unset THEN fromFile
    ELSE fromEnv

UnitLog(u) ==
    LET Mine(e) == e.u = u
    IN  SelectSeq(op, Mine)

\* The answers to unit u's attempts to the webhook with this id, in order.
AttemptsTo(u, id) ==
    LET ToHook(e) == e.name = "attempt" /\ e.u = u /\ e.hook = id
    IN  SelectSeq(op, ToHook)

\* An answer with a status in [200,300).
Answered2xx(resp) == ~resp.err /\ resp.code \in 200..299

\* C26: delivery to one webhook stops at the first success: an attempt that is
\* followed by another attempt to the same webhook was a failure, a status
\* outside [200,300) or a transport error; when attempt k (1 <= k <= 3) is the
\* first one answered 2xx, k attempts and no more are sent; and the retries
\* end only on a 2xx answer or with the third attempt.
C26_StopsAtFirstSuccess ==
    \A u \in 1..Len(units) : \A i \in 1..Len(units[u].hooks) :
        LET a == AttemptsTo(u, units[u].hooks[i].ID)
            k == Len(a)
        IN  /\ k <= 3
            /\ \A j \in 1..(k - 1) : ~Answered2xx(a[j].resp)
            /\ (k > 0 /\ Answered2xx(a[k].resp)) =>
                   /\ units[u].tries[i] = k
                   /\ HookFinished(u, i)
            /\ (HookFinished(u, i) /\ k > 0) => (Answered2xx(a[k].resp) \/ k = 3)

\* C26 witness: the unit is done; a webhook answered 300 to the first attempt,
\* the second attempt met a transport error, the third was answered 299.
C26_Witness ==
    \E u \in 1..Len(units) : \E i \in 1..Len(units[u].hooks) :
        LET a == AttemptsTo(u, units[u].hooks[i].ID)
        IN  /\ units[u].pc = "done"
            /\ Len(a) = 3
            /\ a[1].resp = HTTPStatus(300)
            /\ a[2].resp = TransportError
            /\ a[3].resp = HTTPStatus(299)
            /\ units[u].tries[i] = 3


\* How many of the first p entries of a log are attempts to this webhook.
RECURSIVE AttemptsBefore(_, _, _)
AttemptsBefore(log, p, id) ==
    IF p = 0 THEN 0
    ELSE AttemptsBefore(log, p - 1, id)
         + (IF log[p].name = "attempt" /\ log[p].hook = id THEN 1 ELSE 0)

\* C27: a unit sleeps only right after a failed attempt that is not the third
\* one to its webhook, for 1 second after the first failed attempt and for 2
\* seconds after the second; it does sleep after each of these, and nothing
\* but the next attempt or the end of the retries follows a successful or a
\* third attempt.
C27_BackoffDoubles ==
    \A u \in 1..Len(units) :
        LET log == UnitLog(u)
        IN  \A p \in 1..Len(log) :
                /\ log[p].name = "sleep" =>
                       /\ p > 1
                       /\ log[p - 1].name = "attempt"
                       /\ ~Answered2xx(log[p - 1].resp)
                       /\ LET n == AttemptsBefore(log, p, log[p - 1].hook)
                          IN  /\ n \in {1, 2}
                              /\ log[p].d = (IF n = 1 THEN 1 ELSE 2)
                /\ (log[p].name = "attempt" /\ p < Len(log)) =>
                       LET n == AttemptsBefore(log, p, log[p].hook)
                       IN  (log[p + 1].name = "sleep")
                               <=> (~Answered2xx(log[p].resp) /\ n < 3)
                /\ (log[p].name = "attempt" /\ p = Len(log)) =>
                       LET n == AttemptsBefore(log, p, log[p].hook)
                       IN  (units[u].pc = "sleep")
                               <=> (~Answered2xx(log[p].resp) /\ n < 3)

\* C27 witness: a webhook failed three times; the unit slept 1 second after
\* the first failure, 2 seconds after the second and went on to the next
\* webhook right after the third.
C27_Witness ==
    \E u \in 1..Len(units) :
        LET log == UnitLog(u)
        IN  \E p \in 1..Len(log) :
                /\ p + 5 <= Len(log)
                /\ log[p].name = "attempt" /\ log[p + 1].name = "sleep"
                /\ log[p + 1].d = 1
                /\ log[p + 2].name = "attempt" /\ log[p + 3].name = "sleep"
                /\ log[p + 3].d = 2
                /\ log[p + 4].name = "attempt" /\ log[p + 4].hook = log[p].hook
                /\ log[p + 5].name = "attempt" /\ log[p + 5].hook # log[p].hook


\* C28: a unit whose listing returned an error or no webhook is over: it has
\* sent no request, has none in flight, has not slept, and takes no further
\* step.
C28_NothingListedNothingSent ==
    \A u \in 1..Len(units) :
        LET log == UnitLog(u)
        IN  \A p \in 1..Len(log) :
                (log[p].name = "list" /\ (log[p].err # ErrNil \/ log[p].hooks = <<>>)) =>
                    /\ p = Len(log)
                    /\ units[u].pc = "done"
                    /\ units[u].req = NoRequest
                    /\ units[u].tries = <<>>
                    /\ ~ENABLED DeliverStep(u)

\* Some webhook of the registry is switched on and subscribed to the status.
SomeSubscribed(status) ==
    \E k \in DOMAIN webhooks : webhooks[k].Enabled /\ isSubscribed(webhooks[k], status)

\* The unit listed, as its only step, with this error and no webhook.
ListedNothing(u, err) ==
    LET log == UnitLog(u)
    IN  /\ Len(log) = 2
        /\ log[2].name = "list"
        /\ log[2].err = err
        /\ log[2].hooks = <<>>
        /\ units[u].pc = "done"

\* C28 witness: the listing failed although the registry holds an enabled
\* webhook subscribed to the event; the unit is over.
C28_Witness ==
    \E u \in 1..Len(units) :
        ListedNothing(u, ErrIO) /\ SomeSubscribed(units[u].args.status)

\* The other case of C28: the only registered webhook is switched off, the
\* listing succeeded with the empty list, and the unit is over.
EmptyListEndsUnit ==
    \E u \in 1..Len(units) :
        ListedNothing(u, ErrNil) /\ backend # "noop" /\ DOMAIN webhooks # {}


\* How many entries of a log carry this name.
CountOf(log, name) ==
    LET Named(e) == e.name = name
    IN  Len(SelectSeq(log, Named))

\* The sum of a sequence of numbers.
RECURSIVE SumSeq(_)
SumSeq(ns) == IF ns = <<>> THEN 0 ELSE Head(ns) + SumSeq(Tail(ns))

\* n of C29: the webhooks of unit u's list that are subscribed to its event.
SubscribedCount(u) ==
    Cardinality({i \in 1..Len(units[u].hooks) :
                     isSubscribed(units[u].hooks[i], units[u].args.status)})

\* The requests unit u has sent so far do not exceed 3 * n, its sleeps 2 * n.
WithinRetryBudget(u) ==
    /\ SumSeq(units[u].tries) <= 3 * SubscribedCount(u)
    /\ CountOf(UnitLog(u), "attempt") <= SumSeq(units[u].tries)
    /\ CountOf(UnitLog(u), "sleep") <= 2 * SubscribedCount(u)

\* C29: every dispatch unit terminates: when every step of the unit is taken
\* in the end (each HTTP attempt returns), a unit that was started ends, and at
\* no time has it sent more than 3 * n requests or slept more than 2 * n times,
\* n being the number of subscribed webhooks of its list.
C29_UnitTerminates ==
    /\ [](\A u \in 1..Len(units) : WithinRetryBudget(u))
    /\ \A u \in 1..MaxDispatches :
           (Len(units) >= u) ~> (Len(units) >= u /\ units[u].pc = "done")

\* C29 witness: a unit over two subscribed webhooks has ended after 6 attempts
\* and 4 sleeps.
C29_Witness ==
    \E u \in 1..Len(units) :
        /\ units[u].pc = "done"
        /\ SubscribedCount(u) = 2
        /\ SumSeq(units[u].tries) = 6
        /\ CountOf(UnitLog(u), "attempt") = 6
        /\ CountOf(UnitLog(u), "sleep") = 4


\* Entry p of the log is about the webhook with this id and has this name.
Concerns(p, name, id) == op[p].name = name /\ op[p].id = id

\* The ids of the webhooks a listing returned.
ListedIDs(hooks) == {hooks[i].ID : i \in 1..Len(hooks)}

\* Unit u has sent a request to the webhook with this id.
AttemptedBy(u, id) ==
    \E i \in 1..Len(units[u].hooks) :
        units[u].hooks[i].ID = id /\ units[u].tries[i] > 0

\* Every successful listing returned enabled webhooks only, each once, and
\* every registered webhook that no toggle and no delete has concerned: the
\* webhooks are registered enabled, so such a one is enabled all the time.
ListsExactlyEnabled ==
    \A p \in 1..Len(op) :
        (op[p].name = "list" /\ op[p].err = ErrNil) =>
            /\ \A i \in 1..Len(op[p].hooks) : op[p].hooks[i].Enabled
            /\ Cardinality(ListedIDs(op[p].hooks)) = Len(op[p].hooks)
            /\ \A hook \in TestHooks :
                   (/\ backend # "noop"
                    /\ webhookKey(backend, hook.ID) \in DOMAIN webhooks
                    /\ \A q \in 1..Len(op) : ~Concerns(q, "toggle", hook.ID)
                    /\ \A q \in 1..Len(op) : ~Concerns(q, "delete", hook.ID))
                       => hook.ID \in ListedIDs(op[p].hooks)

\* A unit dispatched after a webhook was deleted, or after a toggle switched
\* it off that no other toggle of it precedes or follows, sends it nothing.
NoAttemptAfterDisable ==
    \A p \in 1..Len(op) : \A hook \in TestHooks :
        LET id == hook.ID
            toggledOff == /\ Concerns(p, "updated", id)
                          /\ op[p].kind = "toggle"
                          /\ op[p].err = ErrNil
                          /\ ~op[p].enabled
                          /\ Cardinality({q \in 1..Len(op) : Concerns(q, "toggle", id)}) = 1
            deleted == Concerns(p, "delete", id) /\ op[p].err = ErrNil
        IN  (toggledOff \/ deleted) =>
                \A q \in (p + 1)..Len(op) :
                    op[q].name = "dispatch" => ~AttemptedBy(op[q].u, id)

\* Once two toggles of a webhook have returned, with no other toggle and no
\* delete of it, the stored flag is the one it was registered with.
TwoTogglesRestore ==
    \A hook \in TestHooks :
        LET id == hook.ID
            started == {q \in 1..Len(op) : Concerns(q, "toggle", id)}
            done == {q \in 1..Len(op) : /\ Concerns(q, "updated", id)
                                        /\ op[q].kind = "toggle"
                                        /\ op[q].err = ErrNil}
            busy == {c \in Callers : callers[c].pc # "idle" /\ callers[c].hook.ID = id}
        IN  (/\ Cardinality(started) = 2
             /\ Cardinality(done) = 2
             /\ busy = {}
             /\ \A q \in 1..Len(op) : ~Concerns(q, "delete", id))
                => /\ webhookKey(backend, id) \in DOMAIN webhooks
                   /\ webhooks[webhookKey(backend, id)].Enabled = hook.Enabled

\* C30: listEnabled returns exactly the registered webhooks whose enabled flag
\* is true; after a webhook is toggled to disabled or deleted, no dispatch unit
\* that starts afterwards makes an attempt to it; and toggling a webhook twice
\* restores its enabled flag.
C30_EnabledRegistryLifecycle ==
    /\ ListsExactlyEnabled
    /\ NoAttemptAfterDisable
    /\ TwoTogglesRestore


\* The webhook with this id is in the registry.
Registered(b, reg, id) == b # "noop" /\ webhookKey(b, id) \in DOMAIN reg

\* C31: with the store working, a DELETE for an id that is not in the
\* registry is answered 404, and a DELETE for a present id is answered 204
\* and leaves the registry without it.
C31_DeleteAbsentIs404 ==
    \A i \in 1..Len(op) :
        (op[i].name = "delete" /\ op[i].id # <<>> /\ ~op[i].io) =>
            IF Registered(backend, op[i].before, op[i].id)
            THEN /\ op[i].status = StatusNoContent
                 /\ ~Registered(backend, op[i].after, op[i].id)
            ELSE op[i].status = StatusNotFound


\* C36: against a persisting registry whose store works, every valid create
\* request is answered 201 with an id that no registered webhook has, and
\* leaves one more webhook registered.
C36_CreatedIDsDistinct ==
    \A i \in 1..Len(op) :
        (/\ op[i].name = "create"
         /\ backend # "noop"
         /\ ~op[i].io
         /\ op[i].req.URL # ""
         /\ op[i].req.Events # <<>>) =>
            /\ ~Registered(backend, op[i].before, op[i].id)
            /\ op[i].status = StatusCreated
            /\ Cardinality(DOMAIN op[i].after) = Cardinality(DOMAIN op[i].before) + 1


\* The first personalization of a call whose send failed; one past the last
\* when every send succeeded.
RECURSIVE FirstFailedSend(_, _)
FirstFailedSend(sendErrs, k) ==
    IF k > Len(sendErrs) THEN k
    ELSE IF ~sendErrs[k].isNil THEN k
    ELSE FirstFailedSend(sendErrs, k + 1)

\* The status the policy gives the outcome of a send.
OutcomeStatus(sendErr) ==
    IF sendErr.isNil THEN StatusDelivered ELSE PolicyStatus(sendErr.text)

\* The recipients and statuses of the records a call has to save: for every
\* personalization up to the last one sent, in order, one per To address.
RECURSIVE ExpectedSaves(_, _, _, _)
ExpectedSaves(pr, sendErrs, k, last) ==
    IF k > last THEN <<>>
    ELSE [j \in 1..Len(pr[k]) |->
              [to |-> pr[k][j], status |-> OutcomeStatus(sendErrs[k])]]
         \o ExpectedSaves(pr, sendErrs, k + 1, last)

\* C32: in a sendMail call whose attachments are accepted and whose message
\* ids are generated, SaveMSG is called once per To recipient of every
\* personalization up to and including the first whose send failed, in order,
\* with the status the send's outcome classifies to (bounce, blocked or
\* deferred for a failed send); when a send failed the result is an internal
\* error and nothing of a later personalization is saved, otherwise the result
\* is the accepted one; and with the store working every one of these records
\* is in the store with that status.
C32_ClassifiedThenSaved ==
    \A i \in 1..Len(op) :
        (op[i].name = "sendMail" /\ op[i].attach = StatusAccepted /\ op[i].idFailsAt = 0) =>
            LET pr == op[i].request
                f == FirstFailedSend(op[i].sendErrs, 1)
                last == IF f > Len(pr) THEN Len(pr) ELSE f
                want == ExpectedSaves(pr, op[i].sendErrs, 1, last)
            IN  /\ Len(op[i].saves) = Len(want)
                /\ \A j \in 1..Len(want) :
                       /\ op[i].saves[j].ToEmail = want[j].to
                       /\ op[i].saves[j].Status = want[j].status
                       /\ (f <= Len(pr) /\ j > Len(want) - Len(pr[f])) =>
                              op[i].saves[j].Status \in {StatusBounce, StatusBlocked, StatusDeferred}
                /\ op[i].code = (IF f <= Len(pr) THEN StatusInternalServerError
                                 ELSE StatusAccepted)
                /\ (i = Len(op) /\ backend # "noop"
                    /\ \A j \in 1..Len(op[i].saveErrs) : op[i].saveErrs[j] = ErrNil) =>
                       \A j \in 1..Len(want) :
                           LET got == Stored(backend, files, rows, op[i].saves[j].MsgID)
                           IN  Len(got) = 1 /\ got[1].Status = want[j].status

\* C32 witness: a request with two personalizations whose first send failed
\* with a temporary code: one record for bob, blocked, is in the store, the
\* result is the internal error and nothing was saved for dave.
C32_Witness ==
    \E i \in 1..Len(op) :
        /\ i = Len(op)
        /\ op[i].name = "sendMail"
        /\ backend # "noop"
        /\ op[i].request = <<<<"bob">>, <<"dave">>>>
        /\ op[i].attach = StatusAccepted
        /\ op[i].sendErrs[1] = ErrorText(text421)
        /\ Len(op[i].saves) = 1
        /\ op[i].saves[1].ToEmail = "bob"
        /\ op[i].code = StatusInternalServerError
        /\ LET got == Stored(backend, files, rows, op[i].saves[1].MsgID)
           IN  Len(got) = 1 /\ got[1].Status = StatusBlocked


\* Entry i of the log is a list query that returned without an error.
ListedAt(i) ==
    op[i].name = "get" /\ op[i].query.ID = idEmpty /\ op[i].err = ErrNil

\* The offset windows of two queries have no position in common.
DisjointWindows(q1, q2) ==
    q1.Offset + q1.Limit <= q2.Offset \/ q2.Offset + q2.Limit <= q1.Offset

\* A list query with limit L > 0 and offset K over M matching records
\* returned min(L, max(0, M - K)) records, all of them matching.
PageCount(i) ==
    LET q == op[i].query
        matching == {m \in StoredRecords(backend, files, rows) :
                        q.Status = "" \/ m.Status = q.Status}
        left == IF Cardinality(matching) > q.Offset
                THEN Cardinality(matching) - q.Offset ELSE 0
    IN  /\ Len(op[i].msgs) = Min(q.Limit, left)
        /\ \A k \in 1..Len(op[i].msgs) : op[i].msgs[k] \in matching

C34_NoopAlwaysDispatches ==
    /\ [](backend = "noop" => Len(units) = okSaves)
    /\ [][\A c \in Callers :
             (backend = "noop" /\ SaveStep(c) /\ okSaves' = okSaves + 1) =>
                 /\ Len(units') = Len(units) + 1
                 /\ units'[Len(units')].args = DispatchArgsOf(callers[c].msg)]_vars

\* C34 witness: over the no-op backend the same message was saved twice with
\* the same status, and both saves dispatched.
C34_Witness ==
    /\ backend = "noop"
    /\ okSaves = 2
    /\ Len(units) = 2
    /\ units[1].args = units[2].args
    /\ units[1].args.msgID = idM


\* The step in which caller c's SaveMSG reads the existing record.
ReadStep(c) == callers[c].pc = "idle" /\ ncalls' = ncalls + 1

\* C35: the pre-save read of StoreWrapper.SaveMSG either fails with an error
\* other than NotFound, and then the call returns that error wrapped, with
\* nothing saved and nothing dispatched, or the read succeeded or said NotFound
\* and the call goes on to the save with what the read returned as the prior
\* records, none after NotFound.
C35_ReadErrorEndsCall ==
    [][\A c \in SeqCallers :
          ReadStep(c) =>
              \/ /\ callers'[c].pc = "idle"
                 /\ Len(callers'[c].result) > 1
                 /\ callers'[c].result[1] = "fetch existing message"
                 /\ ~ErrorsIs(callers'[c].result, ErrNotFound)
                 /\ UNCHANGED <<files, rows, units, okSaves, changes>>
              \/ /\ callers'[c].pc = "save"
                 /\ \E r \in GetMSG(backend, files, rows,
                                     GetQuery(callers'[c].msg.MsgID, "", 0, 0)) :
                       /\ r.err \in {ErrNil, ErrNotFound}
                       /\ callers'[c].old = r.msgs
                 /\ UNCHANGED <<files, rows, units, okSaves, changes>>]_vars

\* C35 witness: a record is stored and was dispatched once, and a later call
\* for it came back with the read's error: no second save, no second unit.
C35_Witness ==
    /\ backend # "noop"
    /\ ncalls = 2
    /\ okSaves = 1
    /\ Len(units) = 1
    /\ callers["c1"].pc = "idle"
    /\ Len(callers["c1"].result) > 1
    /\ callers["c1"].result[1] = "fetch existing message"


\* The listings unit u has made, in order.
ListingsOf(u) ==
    LET IsList(e) == e.name = "list" /\ e.u = u
    IN  SelectSeq(op, IsList)

\* The step in which unit u lists the enabled webhooks.
ListStep(u) ==
    /\ u \in 1..Len(units)
    /\ units[u].pc = "list"
    /\ units'[u].pc # "list"

\* C37: a dispatch unit lists the enabled webhooks once, in a step of its own
\* after the dispatch call, from the registry as it is at that step; the list
\* it got stays the unit's list whatever happens to the registry, every
\* request goes to the listed webhook's URL with the headers made from the
\* listed secret, every attempt is to a listed webhook, and no change of the
\* registry changes a unit.
C37_OneSnapshotPerUnit ==
    /\ [](\A u \in 1..Len(units) :
            LET lists == ListingsOf(u)
            IN  /\ Len(lists) = (IF units[u].pc = "list" THEN 0 ELSE 1)
                /\ units[u].pc # "list" =>
                      /\ units[u].hooks = lists[1].hooks
                      /\ \A i \in 1..Len(op) :
                            (op[i].name = "attempt" /\ op[i].u = u) =>
                                op[i].hook \in ListedIDs(lists[1].hooks)
                /\ units[u].pc = "await" =>
                      LET listed == lists[1].hooks[units[u].idx]
                      IN  /\ units[u].req.URL = listed.URL
                          /\ units[u].req.Headers =
                                RequestHeaders(listed, units[u].req.Body))
    /\ [][\A u \in 1..Len(units) :
             ListStep(u) =>
                 /\ op' = Append(op, op'[Len(op')])
                 /\ ListResult(op'[Len(op')].hooks, op'[Len(op')].err)
                       \in ListEnabled(backend, webhooks)]_vars
    /\ [][webhooks' # webhooks => units' = units]_vars

\* C37 witness: a webhook was moved to another URL and got another secret
\* after the unit had listed it, and the unit's retry is in flight to the
\* listed URL.
C37_Witness ==
    \E u \in 1..Len(units) :
        /\ units[u].pc = "await"
        /\ units[u].attempt >= 1
        /\ LET listed == units[u].hooks[units[u].idx]
               key == webhookKey(backend, listed.ID)
           IN  /\ key \in DOMAIN webhooks
               /\ webhooks[key].URL = MovedURL
               /\ listed.URL # MovedURL
               /\ units[u].req.URL = listed.URL

\* A webhook that was registered after the unit's listing, enabled and
\* subscribed to the event, and the unit ended without an attempt to it.
RegisteredLaterGetsNothing ==
    \E u \in 1..Len(units), k \in DOMAIN webhooks :
        /\ units[u].pc = "done"
        /\ Len(units[u].hooks) > 0
        /\ webhooks[k].Enabled
        /\ isSubscribed(webhooks[k], units[u].args.status)
        /\ webhooks[k].ID \notin ListedIDs(units[u].hooks)
        /\ AttemptsTo(u, webhooks[k].ID) = <<>>
        /\ ntoggles = 1

\* A webhook that was deleted while the unit was running gets the retry.
DeletedStillAttempted ==
    \E u \in 1..Len(units) :
        /\ units[u].pc = "await"
        /\ units[u].attempt >= 1
        /\ webhookKey(backend, units[u].hooks[units[u].idx].ID) \notin DOMAIN webhooks


\* sendWithRetry has returned for the unit's webhook number j: it was
\* delivered, or all its attempts failed.
Finished(unit, j) == unit.ok[j] \/ unit.fails[j] = MaxRetries

\* C38: a dispatch unit works on one webhook at a time, in the order of its
\* list: a webhook that got an attempt has every earlier subscribed webhook
\* finished (delivered, or failed 3 times), a webhook other than the current
\* one is finished or untouched, and webhooks that are not subscribed are
\* never tried; a unit that has not ended can always take its next step,
\* whatever the other units are doing.
C38_OneWebhookAtATime ==
    /\ \A u \in 1..Len(units) :
          LET unit == units[u]
          IN  \A i \in 1..Len(unit.hooks) :
                 /\ unit.tries[i] > 0 =>
                       /\ isSubscribed(unit.hooks[i], unit.args.status)
                       /\ \A j \in 1..(i - 1) :
                             isSubscribed(unit.hooks[j], unit.args.status) =>
                                 Finished(unit, j)
                       /\ (i # unit.idx \/ unit.pc = "done") => Finished(unit, i)
                 /\ (unit.pc # "done" /\ i > unit.idx) => unit.tries[i] = 0
    /\ \A u \in 1..Len(units) : units[u].pc # "done" => ENABLED OrderStep(u)

\* C38 witness: the first unit has failed 3 times at its first webhook and is
\* waiting for the answer of its second one, while the second unit sleeps
\* between two attempts to its first.
C38_Witness ==
    /\ Len(units) = 2
    /\ units[1].pc = "await"
    /\ units[1].idx = 2
    /\ units[1].fails[1] = MaxRetries
    /\ units[2].pc = "sleep"
    /\ units[2].idx = 1
    /\ units[2].fails[1] = 1


\* C39: of two concurrent filesystem Create calls with the same id at most
\* one returns nil, and then the stored webhook is the one it was called with.
C39_ConcurrentCreateOneWins ==
    \A c1, c2 \in Callers :
        (/\ c1 # c2
         /\ callers[c1].pc = "done"
         /\ callers[c2].pc = "done"
         /\ callers[c1].hook.ID = callers[c2].hook.ID
         /\ callers[c1].result = ErrNil) =>
            /\ callers[c2].result # ErrNil
            /\ webhooks[webhookFile(callers[c1].hook.ID)] = callers[c1].hook

====
